---- MODULE Spec2Model ----
(***************************************************************************)
(* Model of the free-text insight extraction engine of                     *)
(* backend/ai/text_parser.py (class InsightTextParser).                    *)
(*                                                                         *)
(* A Python str is modelled as a sequence of characters; a character is a  *)
(* one-character string, and the two non-ASCII characters the model uses   *)
(* are written by code point: "U+2022" (the bullet) and "U+0131" (the      *)
(* dotless i, which re.IGNORECASE treats as a case variant of "i").        *)
(***************************************************************************)
EXTENDS Integers, Sequences, FiniteSets, TLC

VARIABLES response_text, default_type, pc, insights, cleaned, parts,
          document_info, parser, calls, users, tokens, current_user,
          text_blocks, run, documents

\* the result of parse_document_type
doc_vars == <<document_info>>

\* the shared InsightTextParser and the calls in progress on it
call_vars == <<parser, calls>>

\* the users file, the access tokens issued, the last answer of
\* get_current_user and the documents stored
auth_vars == <<users, tokens, current_user, documents>>

\* the result of _split_into_blocks
split_vars == <<text_blocks>>

\* the run of analyze_document_dynamic in progress
client_vars == <<run>>

vars == <<response_text, default_type, pc, insights, cleaned, parts,
          doc_vars, call_vars, auth_vars, split_vars, client_vars>>

----------------------------------------------------------------------------
(* Characters: str.lower, str.upper, str.isspace, \w, \d and the case      *)
(* folding of re.IGNORECASE.                                               *)

UpperAZ == <<"A", "B", "C", "D", "E", "F", "G", "H", "I", "J", "K", "L", "M", "N", "O", "P", "Q", "R", "S", "T", "U", "V", "W", "X", "Y", "Z">>
LowerAZ == <<"a", "b", "c", "d", "e", "f", "g", "h", "i", "j", "k", "l", "m", "n", "o", "p", "q", "r", "s", "t", "u", "v", "w", "x", "y", "z">>

Range(f) == {f[i] : i \in DOMAIN f}

LowerOf == [c \in Range(UpperAZ) |-> LowerAZ[CHOOSE i \in 1..26 : UpperAZ[i] = c]]
UpperOf == [c \in Range(LowerAZ) |-> UpperAZ[CHOOSE i \in 1..26 : LowerAZ[i] = c]]

\* str.lower() of one character; the dotless i is already lower case
PyLowerChar(c) == IF c \in DOMAIN LowerOf THEN LowerOf[c] ELSE c

\* str.upper() of one character; the dotless i has the upper case "I"
PyUpperChar(c) == IF c \in DOMAIN UpperOf THEN UpperOf[c]
                  ELSE IF c = "U+0131" THEN "I" ELSE c

\* the class of a character under re.IGNORECASE: two characters match when
\* their classes are equal ("i", "I" and the dotless i are one class)
ReFold(c) == IF c = "U+0131" THEN "i" ELSE PyLowerChar(c)

CasedChars == Range(UpperAZ) \cup Range(LowerAZ) \cup {"U+0131"}
DigitChars == {"0", "1", "2", "3", "4", "5", "6", "7", "8", "9"}

IsCased(c) == c \in CasedChars
IsDigit(c) == c \in DigitChars
IsSpace(c) == c \in {" ", "\n", "\t", "\r"}
IsWordChar(c) == IsCased(c) \/ IsDigit(c) \/ c = "_"
IsBulletChar(c) == c \in {"-", "U+2022", "*"}

Min(S) == CHOOSE x \in S : \A y \in S : x <= y

\* str.lower()
PyLower(s) == [i \in 1..Len(s) |-> PyLowerChar(s[i])]

\* a faulty variant of str.title(): the value is kept as written
PyTitleAsWritten(s) == s

\* str.title(): a cased character is upper-cased when the one before it is
\* not cased, lower-cased otherwise
PyTitle(s) == [i \in 1..Len(s) |->
                 IF i > 1 /\ IsCased(s[i-1]) THEN PyLowerChar(s[i])
                 ELSE PyUpperChar(s[i])]

\* the first position at or after i that holds no whitespace (Len(s)+1 when
\* there is none): where a greedy \s* started at i stops
RECURSIVE SkipSpace(_, _)
SkipSpace(s, i) ==
    IF i > Len(s) \/ ~IsSpace(s[i]) THEN i ELSE SkipSpace(s, i + 1)

\* the last position at or before i that holds no whitespace (0 when there
\* is none)
RECURSIVE SkipSpaceBack(_, _)
SkipSpaceBack(s, i) ==
    IF i < 1 \/ ~IsSpace(s[i]) THEN i ELSE SkipSpaceBack(s, i - 1)

\* str.strip()
PyStrip(s) ==
    LET a == SkipSpace(s, 1)
    IN  IF a > Len(s) THEN <<>> ELSE SubSeq(s, a, SkipSpaceBack(s, Len(s)))

\* w occurs in s at position i, compared character by character
LitAt(s, i, w) ==
    /\ i >= 1
    /\ i + Len(w) - 1 <= Len(s)
    /\ \A k \in 1..Len(w) : s[i + k - 1] = w[k]

\* w occurs in s at position i under re.IGNORECASE
LitAtI(s, i, w) ==
    /\ i >= 1
    /\ i + Len(w) - 1 <= Len(s)
    /\ \A k \in 1..Len(w) : ReFold(s[i + k - 1]) = ReFold(w[k])

\* `w in s`
Contains(s, w) == \E i \in 1..(Len(s) - Len(w) + 1) : LitAt(s, i, w)

\* str.startswith
StartsWith(s, w) == LitAt(s, 1, w)

\* the last position of the line that position i is on (a "." without
\* DOTALL stops before the next line break)
LineEnd(s, i) ==
    LET nl == {p \in i..Len(s) : s[p] = "\n"}
    IN  IF nl = {} THEN Len(s) ELSE Min(nl) - 1

NoMatch == [found |-> FALSE, group |-> <<>>, start |-> 0, end |-> 0]
Found(g, a, b) == [found |-> TRUE, group |-> g, start |-> a, end |-> b]

----------------------------------------------------------------------------
(* self.patterns                                                           *)

RiskLabel == <<"R", "I", "S", "K">>
ComplianceLabel == <<"C", "O", "M", "P", "L", "I", "A", "N", "C", "E">>
SuggestionLabel == <<"S", "U", "G", "G", "E", "S", "T", "I", "O", "N">>
AnalysisLabel == <<"A", "N", "A", "L", "Y", "S", "I", "S">>
IntensityLabel == <<"I", "N", "T", "E", "N", "S", "I", "T", "Y">>
RecommendationLabel == <<"R", "E", "C", "O", "M", "M", "E", "N", "D", "A", "T", "I", "O", "N">>

High == <<"H", "i", "g", "h">>
Medium == <<"M", "e", "d", "i", "u", "m">>
Low == <<"L", "o", "w">>

\* the label of the content pattern of each type name
LabelOf(type_name) ==
    CASE type_name = "risk" -> RiskLabel
      [] type_name = "compliance" -> ComplianceLabel
      [] type_name = "suggestion" -> SuggestionLabel
      [] type_name = "analysis" -> AnalysisLabel

\* iteration order of self.patterns restricted to the content patterns
ContentTypes == <<"risk", "compliance", "suggestion", "analysis">>

\* the lookahead (?=\n|INTENSITY|RECOMMENDATION|$) at position q
ContentStop(s, q) ==
    \/ q > Len(s)
    \/ s[q] = "\n"
    \/ LitAtI(s, q, IntensityLabel)
    \/ LitAtI(s, q, RecommendationLabel)

\* the lookahead (?=\n(?:RISK|COMPLIANCE|SUGGESTION|ANALYSIS)|$) at position q
RecommendationStop(s, q) ==
    \/ q > Len(s)
    \/ /\ s[q] = "\n"
       /\ \/ q = Len(s)
          \/ \E t \in Range(ContentTypes) : LitAtI(s, q + 1, LabelOf(t))

\* the lookahead of the named pattern at position q
Lookahead(name, s, q) ==
    IF name = "recommendation" THEN RecommendationStop(s, q) ELSE ContentStop(s, q)

\* the last position of a lazy (.+?) that starts at p and has reached x: it
\* grows until the lookahead of the named pattern holds
RECURSIVE LazyEnd(_, _, _)
LazyEnd(name, s, x) ==
    IF Lookahead(name, s, x + 1) THEN x ELSE LazyEnd(name, s, x + 1)

\* the positions of the colons of s
Colons(s) == {c \in 1..Len(s) : s[c] = ":"}

\* LABEL:\s*(.+?)(?=lookahead)  matches at position i, with IGNORECASE and
\* DOTALL: the label and its colon are there and a character follows them
\* (the lazy group can always grow to the end of the text)
LabelledMatches(s, i, label) ==
    LET j == i + Len(label) + 1
    IN  j <= Len(s) /\ s[j - 1] = ":" /\ LitAtI(s, i, label)

\* The match of  LABEL:\s*(.+?)(?=lookahead)  at position i.  \s* is greedy
\* and gives its last character back when it has left (.+?) nothing to
\* take; (.+?) then grows to the first position where the lookahead holds.
LabelledAt(name, s, i, label) ==
    LET j == i + Len(label) + 1
        k == SkipSpace(s, j)
        p == IF k <= Len(s) THEN k ELSE k - 1
        e == LazyEnd(name, s, p)
    IN  Found(SubSeq(s, p, e), i, e)

\* pattern.search(block) for the patterns LABEL:\s*(.+?)(?=lookahead): the
\* leftmost position where the pattern matches (a colon follows the label)
LabelledSearch(name, s, label) ==
    LET hits == {x \in Colons(s) : LabelledMatches(s, x - Len(label), label)}
    IN  IF hits = {} THEN NoMatch ELSE LabelledAt(name, s, Min(hits) - Len(label), label)

\* self.patterns['risk' | 'compliance' | 'suggestion' | 'analysis'].search
ContentSearch(s, type_name) == LabelledSearch(type_name, s, LabelOf(type_name))

\* self.patterns['recommendation'].search
RecommendationSearch(s) == LabelledSearch("recommendation", s, RecommendationLabel)

\* the words that  INTENSITY:\s*(High|Medium|Low)  can capture at position i
\* (IGNORECASE)
IntensityWordsAt(s, i) ==
    LET j == i + Len(IntensityLabel) + 1
    IN  IF j - 1 <= Len(s) /\ s[j - 1] = ":" /\ LitAtI(s, i, IntensityLabel)
        THEN {w \in {High, Medium, Low} : LitAtI(s, SkipSpace(s, j), w)}
        ELSE {}

\* The match of  INTENSITY:\s*(High|Medium|Low)  at position i
IntensityAt(s, i) ==
    LET k == SkipSpace(s, i + Len(IntensityLabel) + 1)
        w == CHOOSE x \in IntensityWordsAt(s, i) : TRUE
    IN  Found(SubSeq(s, k, k + Len(w) - 1), i, k + Len(w) - 1)

\* self.patterns['intensity'].search
IntensitySearch(s) ==
    LET hits == {x \in Colons(s) : IntensityWordsAt(s, x - Len(IntensityLabel)) # {}}
    IN  IF hits = {} THEN NoMatch ELSE IntensityAt(s, Min(hits) - Len(IntensityLabel))

----------------------------------------------------------------------------
(* Markdown clean-up: the four re.sub calls                                *)

\* the end of the span that  m{n}([^m]+)m{n}  matches at position i, or 0:
\* n marker characters, the longest run of other characters (at least
\* one), n marker characters
EmphasisEnd(s, i, m, n) ==
    LET a == i + n
        other == {p \in a..Len(s) : s[p] = m}
        r == IF other = {} THEN Len(s) ELSE Min(other) - 1
    IN  IF /\ i + n - 1 <= Len(s)
           /\ \A k \in i..(i + n - 1) : s[k] = m
           /\ r >= a
           /\ r + n <= Len(s)
           /\ \A k \in (r + 1)..(r + n) : s[k] = m
        THEN r + n
        ELSE 0

\* re.sub(m{n}([^m]+)m{n}, \1, s) scanning from position i: every leftmost
\* non-overlapping span is replaced by its inner text; a match can only
\* start at a marker character, the text before the next one is copied
RECURSIVE SubEmphasisFrom(_, _, _, _)
SubEmphasisFrom(s, i, m, n) ==
    LET marks == {p \in i..Len(s) : s[p] = m}
    IN  IF marks = {} THEN SubSeq(s, i, Len(s))
        ELSE LET a == Min(marks)
                 e == EmphasisEnd(s, a, m, n)
             IN  IF e > 0
                 THEN SubSeq(s, i, a - 1) \o SubSeq(s, a + n, e - n)
                          \o SubEmphasisFrom(s, e + 1, m, n)
                 ELSE SubSeq(s, i, a) \o SubEmphasisFrom(s, a + 1, m, n)

SubEmphasis(s, m, n) == SubEmphasisFrom(s, 1, m, n)

\* the four substitutions in the order the code applies them
StripMarkdown(s) ==
    SubEmphasis(SubEmphasis(SubEmphasis(SubEmphasis(s, "*", 2), "*", 1), "_", 2), "_", 1)

----------------------------------------------------------------------------
(* self.type_keywords, self.fallback_patterns['intensity_keywords'] and    *)
(* the inference helpers                                                   *)

RiskKeywords == <<<<"r", "i", "s", "k">>, <<"d", "a", "n", "g", "e", "r">>, <<"t", "h", "r", "e", "a", "t">>, <<"l", "i", "a", "b", "i", "l", "i", "t", "y">>, <<"e", "x", "p", "o", "s", "u", "r", "e">>,
                  <<"v", "u", "l", "n", "e", "r", "a", "b", "i", "l", "i", "t", "y">>, <<"c", "o", "n", "c", "e", "r", "n">>, <<"p", "r", "o", "b", "l", "e", "m">>, <<"i", "s", "s", "u", "e">>>>
ComplianceKeywords == <<<<"c", "o", "m", "p", "l", "i", "a", "n", "c", "e">>, <<"r", "e", "g", "u", "l", "a", "t", "o", "r", "y">>, <<"l", "e", "g", "a", "l">>, <<"r", "e", "q", "u", "i", "r", "e", "m", "e", "n", "t">>,
                        <<"m", "a", "n", "d", "a", "t", "e">>, <<"o", "b", "l", "i", "g", "a", "t", "i", "o", "n">>, <<"v", "i", "o", "l", "a", "t", "i", "o", "n">>, <<"b", "r", "e", "a", "c", "h">>>>
SuggestionKeywords == <<<<"s", "u", "g", "g", "e", "s", "t">>, <<"r", "e", "c", "o", "m", "m", "e", "n", "d">>, <<"i", "m", "p", "r", "o", "v", "e">>, <<"e", "n", "h", "a", "n", "c", "e">>,
                        <<"o", "p", "t", "i", "m", "i", "z", "e">>, <<"c", "o", "n", "s", "i", "d", "e", "r">>, <<"s", "h", "o", "u", "l", "d">>, <<"c", "o", "u", "l", "d">>, <<"m", "i", "g", "h", "t">>>>

type_keywords(t) ==
    CASE t = "risk" -> RiskKeywords
      [] t = "compliance" -> ComplianceKeywords
      [] t = "suggestion" -> SuggestionKeywords

\* the first characters of a set of words
Initials(words) == {w[1] : w \in words}

RiskInitials == Initials(Range(RiskKeywords))
ComplianceInitials == Initials(Range(ComplianceKeywords))
SuggestionInitials == Initials(Range(SuggestionKeywords))

KeywordInitials(t) ==
    CASE t = "risk" -> RiskInitials
      [] t = "compliance" -> ComplianceInitials
      [] t = "suggestion" -> SuggestionInitials

\* any(word in s for word in words); initials holds the first characters of
\* the words, the only characters an occurrence can start with
ContainsAny(s, words, initials) ==
    \E i \in 1..Len(s) : s[i] \in initials /\ \E w \in words : LitAt(s, i, w)

\* any(keyword in text_lower for keyword in self.type_keywords[t])
HasKeyword(text_lower, t) ==
    ContainsAny(text_lower, Range(type_keywords(t)), KeywordInitials(t))

\* a faulty variant of the loop over self.type_keywords: the vocabularies
\* are tried in the opposite order
InferTypeLastFirst(text, dt) ==
    LET text_lower == PyLower(text)
    IN  IF HasKeyword(text_lower, "suggestion") THEN "suggestion"
        ELSE IF HasKeyword(text_lower, "compliance") THEN "compliance"
        ELSE IF HasKeyword(text_lower, "risk") THEN "risk"
        ELSE dt

\* the loop over self.type_keywords returns at the first type with a keyword
_infer_type(text, dt) ==
    LET text_lower == PyLower(text)
    IN  IF HasKeyword(text_lower, "risk") THEN "risk"
        ELSE IF HasKeyword(text_lower, "compliance") THEN "compliance"
        ELSE IF HasKeyword(text_lower, "suggestion") THEN "suggestion"
        ELSE dt

HighWords == {<<"c", "r", "i", "t", "i", "c", "a", "l">>, <<"h", "i", "g", "h">>, <<"s", "i", "g", "n", "i", "f", "i", "c", "a", "n", "t">>, <<"m", "a", "j", "o", "r">>, <<"s", "e", "r", "i", "o", "u", "s">>}
MediumWords == {<<"i", "m", "p", "o", "r", "t", "a", "n", "t">>, <<"m", "e", "d", "i", "u", "m">>, <<"m", "o", "d", "e", "r", "a", "t", "e">>}
LowWords == {<<"l", "o", "w">>, <<"m", "i", "n", "o", "r">>, <<"m", "i", "n", "i", "m", "a", "l">>}

\* \b(w)\b matches at position i under IGNORECASE
WordAt(s, i, w) ==
    /\ LitAtI(s, i, w)
    /\ (i = 1 \/ ~IsWordChar(s[i - 1]))
    /\ (i + Len(w) > Len(s) \/ ~IsWordChar(s[i + Len(w)]))

\* the matches that intensity_keywords.findall(text) returns, each lower-cased
\* with str.lower as the comparisons of _infer_intensity do
IntensityMatches(s) ==
    LET word_starts == {i \in 1..Len(s) : IsWordChar(s[i]) /\ (i = 1 \/ ~IsWordChar(s[i - 1]))}
    IN  {PyLower(SubSeq(s, x[1], x[1] + Len(x[2]) - 1)) :
            x \in {y \in word_starts \X (HighWords \cup MediumWords \cup LowWords) :
                      WordAt(s, y[1], y[2])}}

HighIndicators == {<<"m", "u", "s", "t">>, <<"r", "e", "q", "u", "i", "r", "e", "d">>, <<"c", "r", "i", "t", "i", "c", "a", "l">>, <<"e", "s", "s", "e", "n", "t", "i", "a", "l">>, <<"u", "r", "g", "e", "n", "t">>}
MediumIndicators == {<<"s", "h", "o", "u", "l", "d">>, <<"r", "e", "c", "o", "m", "m", "e", "n", "d", "e", "d">>, <<"i", "m", "p", "o", "r", "t", "a", "n", "t">>, <<"c", "o", "n", "s", "i", "d", "e", "r">>}

HighIndicatorInitials == Initials(HighIndicators)
MediumIndicatorInitials == Initials(MediumIndicators)

_infer_intensity(text) ==
    LET intensity_matches == IntensityMatches(text)
        text_lower == PyLower(text)
    IN  IF intensity_matches # {}
        THEN IF intensity_matches \cap HighWords # {} THEN High
             ELSE IF intensity_matches \cap MediumWords # {} THEN Medium
             ELSE Low
        ELSE IF ContainsAny(text_lower, HighIndicators, HighIndicatorInitials) THEN High
             ELSE IF ContainsAny(text_lower, MediumIndicators, MediumIndicatorInitials) THEN Medium
             ELSE Low

RiskRecommendation ==
    <<"C", "o", "n", "s", "i", "d", "e", "r", " ", "m", "i", "t", "i", "g", "a", "t", "i", "n", "g", " ", "t", "h", "i", "s", " ", "r", "i", "s", "k", " ", "t", "h", "r", "o", "u", "g", "h", " ", "c", "o", "n", "t", "r", "a", "c", "t", " ", "a", "m", "e", "n", "d", "m", "e", "n", "t", "s", " ", "o", "r", " ", "a", "d", "d", "i", "t", "i", "o", "n", "a", "l", " ", "s", "a", "f", "e", "g", "u", "a", "r", "d", "s", ".">>
ComplianceRecommendation ==
    <<"E", "n", "s", "u", "r", "e", " ", "c", "o", "m", "p", "l", "i", "a", "n", "c", "e", " ", "b", "y", " ", "c", "o", "n", "s", "u", "l", "t", "i", "n", "g", " ", "l", "e", "g", "a", "l", " ", "c", "o", "u", "n", "s", "e", "l", " ", "a", "n", "d", " ", "u", "p", "d", "a", "t", "i", "n", "g", " ", "r", "e", "l", "e", "v", "a", "n", "t", " ", "c", "l", "a", "u", "s", "e", "s", ".">>
SuggestionRecommendation ==
    <<"R", "e", "v", "i", "e", "w", " ", "t", "h", "i", "s", " ", "r", "e", "c", "o", "m", "m", "e", "n", "d", "a", "t", "i", "o", "n", " ", "a", "n", "d", " ", "c", "o", "n", "s", "i", "d", "e", "r", " ", "i", "m", "p", "l", "e", "m", "e", "n", "t", "i", "n", "g", " ", "t", "h", "e", " ", "s", "u", "g", "g", "e", "s", "t", "e", "d", " ", "i", "m", "p", "r", "o", "v", "e", "m", "e", "n", "t", "s", ".">>
BlockRecommendation == <<"C", "o", "n", "s", "i", "d", "e", "r", " ", "r", "e", "v", "i", "e", "w", "i", "n", "g", " ", "t", "h", "i", "s", " ", "i", "t", "e", "m", " ", "c", "a", "r", "e", "f", "u", "l", "l", "y", ".">>
SyntheticRecommendation ==
    <<"R", "e", "v", "i", "e", "w", " ", "t", "h", "i", "s", " ", "a", "n", "a", "l", "y", "s", "i", "s", " ", "a", "n", "d", " ", "c", "o", "n", "s", "i", "d", "e", "r", " ", "t", "h", "e", " ", "i", "m", "p", "l", "i", "c", "a", "t", "i", "o", "n", "s", " ", "f", "o", "r", " ", "y", "o", "u", "r", " ", "d", "o", "c", "u", "m", "e", "n", "t", ".">>

_generate_recommendation(insight_type, description) ==
    IF insight_type = "risk" THEN RiskRecommendation
    ELSE IF insight_type = "compliance" THEN ComplianceRecommendation
    ELSE SuggestionRecommendation

ParsedInsight(t, i, d, r, c) ==
    [type |-> t, intensity |-> i, description |-> d, recommendation |-> r, confidence |-> c]

----------------------------------------------------------------------------
(* _parse_single_block                                                     *)

\* a faulty variant of the loop over self.patterns: the content pattern
\* whose match begins first in the block
LeftmostContentType(block, n) ==
    LET found == {i \in 1..Len(ContentTypes) : ContentSearch(block, ContentTypes[i]).found}
    IN  IF found = {} THEN 0
        ELSE CHOOSE i \in found :
                 \A j \in found : ContentSearch(block, ContentTypes[i]).start
                                      <= ContentSearch(block, ContentTypes[j]).start

\* the loop over self.patterns: the first content pattern that matches, as
\* its position in ContentTypes from n on (0 when none matches)
RECURSIVE FirstContentType(_, _)
FirstContentType(block, n) ==
    IF n > Len(ContentTypes) THEN 0
    ELSE IF ContentSearch(block, ContentTypes[n]).found THEN n
    ELSE FirstContentType(block, n + 1)

\* the result is a sequence: empty for None, else the one ParsedInsight
_parse_single_block(block, dt) ==
    LET n == FirstContentType(block, 1)
        type_name == ContentTypes[n]
        description == PyStrip(ContentSearch(block, type_name).group)
        insight_type == IF type_name # "analysis" THEN type_name ELSE dt
        cleaned_description == PyStrip(StripMarkdown(description))
        intensity_match == IntensitySearch(block)
        intensity == IF intensity_match.found THEN PyTitle(intensity_match.group)
                     ELSE _infer_intensity(cleaned_description)
        rec_match == RecommendationSearch(block)
        recommendation == IF rec_match.found THEN PyStrip(rec_match.group)
                          ELSE BlockRecommendation
        cleaned_recommendation == IF recommendation # <<>>
                                  THEN PyStrip(StripMarkdown(recommendation))
                                  ELSE recommendation
    IN  IF n = 0 THEN <<>>
        ELSE IF description = <<>> THEN <<>>
        ELSE <<ParsedInsight(insight_type, intensity, cleaned_description,
                             cleaned_recommendation, "0.8")>>

----------------------------------------------------------------------------
(* _split_into_blocks and _parse_structured_format                         *)

\* the last position at or before q that holds a line break (0 when there
\* is none)
RECURSIVE LineBreakBack(_, _)
LineBreakBack(s, q) ==
    IF q < 1 \/ s[q] = "\n" THEN q ELSE LineBreakBack(s, q - 1)

\* the first characters of the labels the split pattern looks for
LabelInitials == {LabelOf(t)[1] : t \in Range(ContentTypes)}

\* One attempt of the split pattern at position a.  The result is the last
\* position of the match: a - 1 for an empty match, -1 for no match.
\* \n\s*\n is tried first; the lookahead alternatives match the empty
\* string.  The labels are compared case-sensitively (re.split is called
\* without flags) and ^ is the start of the text only.
SplitMatchAt(s, a) ==
    LET last_nl == LineBreakBack(s, SkipSpace(s, a + 1) - 1)
        b == SkipSpace(s, 1)
        nondigit == {p \in a..Len(s) : ~IsDigit(s[p])}
        d == IF nondigit = {} THEN Len(s) + 1 ELSE Min(nondigit)
    IN  IF s[a] = "\n" /\ last_nl > a THEN last_nl
        ELSE IF \/ /\ s[a] \in LabelInitials
                   /\ \E t \in Range(ContentTypes) :
                          /\ LitAt(s, a, LabelOf(t))
                          /\ LitAt(s, a + Len(LabelOf(t)), <<":">>)
                \/ a = 1 /\ b <= Len(s) /\ IsBulletChar(s[b])
                \/ IsDigit(s[a]) /\ d <= Len(s) /\ s[d] = "."
             THEN a - 1
             ELSE -1

\* the positions where the split pattern matches
SplitPoints(s) == {a \in 1..Len(s) : SplitMatchAt(s, a) # -1}

\* re.split from position pos, the current piece starting at last; points
\* are the positions where the pattern matches, and after an empty match
\* the next match at the same position must be non-empty
RECURSIVE SplitFrom(_, _, _, _, _)
SplitFrom(s, points, pos, last, must_advance) ==
    LET hits == {a \in points :
                    a >= pos /\ ~(must_advance /\ a = pos /\ SplitMatchAt(s, a) = a - 1)}
    IN  IF hits = {} THEN <<SubSeq(s, last, Len(s))>>
        ELSE LET a == Min(hits)
                 e == SplitMatchAt(s, a)
             IN  IF e >= a
                 THEN <<SubSeq(s, last, a - 1)>> \o SplitFrom(s, points, e + 1, e + 1, FALSE)
                 ELSE <<SubSeq(s, last, a - 1)>> \o SplitFrom(s, points, a, a, TRUE)

\* [f(x) for x in seq if keep(f(x))]
RECURSIVE StripNonEmpty(_)
StripNonEmpty(pieces) ==
    IF pieces = <<>> THEN <<>>
    ELSE LET b == PyStrip(Head(pieces))
         IN  (IF b # <<>> THEN <<b>> ELSE <<>>) \o StripNonEmpty(Tail(pieces))

_split_into_blocks(text) == StripNonEmpty(SplitFrom(text, SplitPoints(text), 1, 1, FALSE))

RECURSIVE ParseBlocks(_, _)
ParseBlocks(blocks, dt) ==
    IF blocks = <<>> THEN <<>>
    ELSE _parse_single_block(Head(blocks), dt) \o ParseBlocks(Tail(blocks), dt)

_parse_structured_format(text, dt) == ParseBlocks(_split_into_blocks(text), dt)

----------------------------------------------------------------------------
(* self.fallback_patterns, _parse_unstructured_format and its helpers      *)

\* position a is where ^ matches under re.MULTILINE
IsLineStart(s, a) == a = 1 \/ s[a - 1] = "\n"

\* the last position at or before q that holds no line break (0 when there
\* is none)
RECURSIVE NotLineBreakBack(_, _)
NotLineBreakBack(s, q) ==
    IF q < 1 \/ s[q] # "\n" THEN q ELSE NotLineBreakBack(s, q - 1)

\* the tail  \s*(.+)  tried at position j: \s* is greedy and gives back
\* characters until (.+) has a character other than a line break to start
\* with; (.+) then runs to the end of that line
TailAt(s, j) ==
    LET m == SkipSpace(s, j)
        p == IF m <= Len(s) THEN m ELSE NotLineBreakBack(s, Len(s))
    IN  IF p < j THEN NoMatch
        ELSE Found(SubSeq(s, p, LineEnd(s, p)), j, LineEnd(s, p))

\* One attempt of  ^\s*[-*bullet]\s*(.+)  at position a
BulletAt(s, a) ==
    LET k == SkipSpace(s, a)
    IN  IF IsLineStart(s, a) /\ k <= Len(s) /\ IsBulletChar(s[k])
        THEN TailAt(s, k + 1)
        ELSE NoMatch

\* One attempt of  ^\s*\d+\.\s*(.+)  at position a
NumberedAt(s, a) ==
    LET k == SkipSpace(s, a)
        nondigit == {p \in k..Len(s) : ~IsDigit(s[p])}
        d == IF nondigit = {} THEN Len(s) + 1 ELSE Min(nondigit)
    IN  IF IsLineStart(s, a) /\ k <= Len(s) /\ IsDigit(s[k]) /\ d <= Len(s) /\ s[d] = "."
        THEN TailAt(s, d + 1)
        ELSE NoMatch

\* One attempt of the named fallback pattern at position a
FallbackAt(name, s, a) ==
    IF name = "bullet_points" THEN BulletAt(s, a) ELSE NumberedAt(s, a)

\* self.fallback_patterns[name].findall(text) from position pos: the groups
\* of the leftmost non-overlapping matches
RECURSIVE FindAllFrom(_, _, _)
FindAllFrom(name, s, pos) ==
    LET hits == {a \in pos..Len(s) : FallbackAt(name, s, a).found}
    IN  IF hits = {} THEN <<>>
        ELSE LET m == FallbackAt(name, s, Min(hits))
             IN  <<m.group>> \o FindAllFrom(name, s, m.end + 1)

bullet_points(text) == FindAllFrom("bullet_points", text, 1)
numbered_points(text) == FindAllFrom("numbered_points", text, 1)

\* a faulty variant of seq[:n]: no limit
TakeAll(seq, n) == seq

\* seq[:n]
Take(seq, n) == SubSeq(seq, 1, IF Len(seq) < n THEN Len(seq) ELSE n)

IsSentenceEnd(c) == c \in {".", "!", "?"}

\* re.split(r'[.!?]+', text) from position pos
RECURSIVE SentencePieces(_, _)
SentencePieces(s, pos) ==
    LET ends == {p \in pos..Len(s) : IsSentenceEnd(s[p])}
    IN  IF ends = {} THEN <<SubSeq(s, pos, Len(s))>>
        ELSE LET a == Min(ends)
                 rest == {p \in a..Len(s) : ~IsSentenceEnd(s[p])}
                 e == IF rest = {} THEN Len(s) ELSE Min(rest) - 1
             IN  <<SubSeq(s, pos, a - 1)>> \o SentencePieces(s, e + 1)

RECURSIVE StripLongerThan(_, _)
StripLongerThan(pieces, n) ==
    IF pieces = <<>> THEN <<>>
    ELSE LET b == PyStrip(Head(pieces))
         IN  (IF Len(b) > n THEN <<b>> ELSE <<>>) \o StripLongerThan(Tail(pieces), n)

\* the length a fragment must exceed to be returned by _split_into_sentences
SentenceMinLen == 10

\* the length a sentence must exceed to become an insight
InsightMinLen == 20

_split_into_sentences(text) == StripLongerThan(SentencePieces(text, 1), SentenceMinLen)

RemoveTrailingPeriod(d) ==
    IF Len(d) > 0 /\ d[Len(d)] = "." THEN SubSeq(d, 1, Len(d) - 1) ELSE d

_create_insight_from_text(text, dt) ==
    LET insight_type == _infer_type(text, dt)
        intensity == _infer_intensity(text)
        description == RemoveTrailingPeriod(StripMarkdown(PyStrip(text)))
        recommendation == _generate_recommendation(insight_type, description)
    IN  ParsedInsight(insight_type, intensity, description, recommendation, "0.7")

RECURSIVE CreateInsights(_, _)
CreateInsights(texts, dt) ==
    IF texts = <<>> THEN <<>>
    ELSE <<_create_insight_from_text(Head(texts), dt)>> \o CreateInsights(Tail(texts), dt)

\* the limit on bullet and numbered matches
FallbackLimit == 5

\* the number of sentences considered
SentenceLimit == 3

\* a faulty variant of _parse_unstructured_format: bullets and numbered
\* points only, no sentence stage
BulletsOrNumbered(text, dt) ==
    LET bullets == CreateInsights(Take(bullet_points(text), FallbackLimit), dt)
        numbered == CreateInsights(Take(numbered_points(text), FallbackLimit), dt)
    IN  IF bullets # <<>> THEN bullets ELSE numbered

\* a faulty variant of _parse_unstructured_format: no early exit, every
\* stage adds to what the earlier ones found
EveryStage(text, dt) ==
    CreateInsights(Take(bullet_points(text), FallbackLimit), dt)
        \o CreateInsights(Take(numbered_points(text), FallbackLimit), dt)
        \o CreateInsights(StripLongerThan(Take(_split_into_sentences(text), SentenceLimit),
                                          InsightMinLen), dt)

\* a faulty variant of _parse_unstructured_format: the sentence stage
\* takes the first SentenceLimit sentences that are long enough
FirstSubstantial(text, dt) ==
    LET bullets == CreateInsights(Take(bullet_points(text), FallbackLimit), dt)
        numbered == CreateInsights(Take(numbered_points(text), FallbackLimit), dt)
        long == StripLongerThan(_split_into_sentences(text), InsightMinLen)
    IN  IF bullets # <<>> THEN bullets
        ELSE IF numbered # <<>> THEN numbered
        ELSE CreateInsights(Take(long, SentenceLimit), dt)

_parse_unstructured_format(text, dt) ==
    LET bullets == CreateInsights(Take(bullet_points(text), FallbackLimit), dt)
        numbered == CreateInsights(Take(numbered_points(text), FallbackLimit), dt)
        sentences == Take(_split_into_sentences(text), SentenceLimit)
        long == StripLongerThan(sentences, InsightMinLen)
    IN  IF bullets # <<>> THEN bullets
        ELSE IF numbered # <<>> THEN numbered
        ELSE CreateInsights(long, dt)

----------------------------------------------------------------------------
(* _extract_main_content and parse_insights_from_text                      *)

\* text.split('\n') from position pos
RECURSIVE SplitLines(_, _)
SplitLines(s, pos) ==
    LET nl == {p \in pos..Len(s) : s[p] = "\n"}
    IN  IF nl = {} THEN <<SubSeq(s, pos, Len(s))>>
        ELSE <<SubSeq(s, pos, Min(nl) - 1)>> \o SplitLines(s, Min(nl) + 1)

BasedOn == <<"B", "a", "s", "e", "d", " ", "o", "n">>
Document == <<"D", "o", "c", "u", "m", "e", "n", "t">>

RECURSIVE ContentLines(_)
ContentLines(lines) ==
    IF lines = <<>> THEN <<>>
    ELSE LET line == PyStrip(Head(lines))
         IN  (IF line # <<>> /\ ~StartsWith(line, BasedOn) /\ ~StartsWith(line, Document)
              THEN <<line>> ELSE <<>>) \o ContentLines(Tail(lines))

\* ' '.join(content_lines)
RECURSIVE JoinSpace(_)
JoinSpace(lines) ==
    IF lines = <<>> THEN <<>>
    ELSE IF Len(lines) = 1 THEN Head(lines)
    ELSE Head(lines) \o <<" ">> \o JoinSpace(Tail(lines))

\* the length above which the main content is cut
MainContentLimit == 200

Ellipsis == <<".", ".", ".">>

\* a faulty variant of _extract_main_content: the text is cut without the
\* three periods
CutWithoutEllipsis(text) ==
    LET main_content == StripMarkdown(JoinSpace(ContentLines(SplitLines(text, 1))))
    IN  Take(main_content, MainContentLimit)

_extract_main_content(text) ==
    LET main_content == StripMarkdown(JoinSpace(ContentLines(SplitLines(text, 1))))
    IN  IF Len(main_content) > MainContentLimit
        THEN SubSeq(main_content, 1, MainContentLimit) \o Ellipsis
        ELSE main_content

\* a faulty variant of the synthetic insight: the intensity follows the
\* caller's default type
SyntheticInsightByType(text, dt) ==
    ParsedInsight(dt, IF dt = "risk" THEN High ELSE Medium, _extract_main_content(text),
                  SyntheticRecommendation, "0.6")

SyntheticInsight(text, dt) ==
    ParsedInsight(dt, Medium, _extract_main_content(text), SyntheticRecommendation, "0.6")

parse_insights_from_text(text, dt) ==
    LET structured_insights == _parse_structured_format(text, dt)
        fallback_insights == _parse_unstructured_format(text, dt)
    IN  IF structured_insights # <<>> THEN structured_insights
        ELSE IF fallback_insights # <<>> THEN fallback_insights
        ELSE <<SyntheticInsight(text, dt)>>

----------------------------------------------------------------------------
(* parse_document_type                                                     *)

DocumentTypeLabel == <<"D", "o", "c", "u", "m", "e", "n", "t", " ", "T", "y", "p", "e">>
CategoryLabel == <<"C", "a", "t", "e", "g", "o", "r", "y">>
ConfidenceLabel == <<"C", "o", "n", "f", "i", "d", "e", "n", "c", "e">>

\* re.search(r'<label>:\s*(.+)', s, re.IGNORECASE): the leftmost label that
\* some text follows; the whitespace run may cross line breaks, the group
\* stays on one line
ValueSearch(s, label) ==
    LET hits == {c \in Colons(s) : LitAtI(s, c - Len(label), label) /\ TailAt(s, c + 1).found}
    IN  IF hits = {} THEN NoMatch ELSE TailAt(s, Min(hits) + 1)

\* re.search(r'<label>:\s*(High|Medium|Low)', s, re.IGNORECASE)
LevelSearch(s, label) ==
    LET words(c) == {w \in {High, Medium, Low} : LitAtI(s, SkipSpace(s, c + 1), w)}
        hits == {c \in Colons(s) : LitAtI(s, c - Len(label), label) /\ words(c) # {}}
    IN  IF hits = {} THEN NoMatch
        ELSE LET c == Min(hits)
                 k == SkipSpace(s, c + 1)
                 w == CHOOSE x \in words(c) : TRUE
             IN  Found(SubSeq(s, k, k + Len(w) - 1), c - Len(label), k + Len(w) - 1)

\* the result parse_document_type starts from
DefaultDocumentType ==
    [document_type |-> <<"U", "n", "k", "n", "o", "w", "n", " ", "D", "o", "c", "u", "m", "e", "n", "t">>, category |-> <<"L", "e", "g", "a", "l">>, confidence |-> Medium]

ThisDocument == <<"T", "h", "i", "s", " ", "d", "o", "c", "u", "m", "e", "n", "t">>

doc_types ==
    { <<"a", "g", "r", "e", "e", "m", "e", "n", "t">>, <<"c", "o", "n", "t", "r", "a", "c", "t">>, <<"p", "o", "l", "i", "c", "y">>, <<"t", "e", "r", "m", "s">>, <<"c", "o", "n", "d", "i", "t", "i", "o", "n", "s">>,
      <<"l", "e", "a", "s", "e">>, <<"n", "d", "a">>, <<"e", "m", "p", "l", "o", "y", "m", "e", "n", "t">> }

\* the number of leading lines the fallback looks at
LeadingLines == 3

\* a faulty variant of the loop over the leading lines: a line without a
\* document-type noun does not end it
RECURSIVE TypeFromAnyLine(_)
TypeFromAnyLine(lines) ==
    IF lines = <<>> THEN DefaultDocumentType.document_type
    ELSE LET line == PyStrip(Head(lines))
         IN  IF /\ line # <<>> /\ ~StartsWith(line, BasedOn) /\ ~StartsWith(line, ThisDocument)
                /\ ContainsAny(PyLower(line), doc_types, Initials(doc_types))
             THEN line
             ELSE TypeFromAnyLine(Tail(lines))

\* a faulty variant of the loop over the leading lines: preambles are not
\* skipped
RECURSIVE TypeFromLinesWithPreambles(_)
TypeFromLinesWithPreambles(lines) ==
    IF lines = <<>> THEN DefaultDocumentType.document_type
    ELSE LET line == PyStrip(Head(lines))
         IN  IF line # <<>>
             THEN IF ContainsAny(PyLower(line), doc_types, Initials(doc_types))
                  THEN line
                  ELSE DefaultDocumentType.document_type
             ELSE TypeFromLinesWithPreambles(Tail(lines))

\* the loop over the leading lines: the first line that is not empty and
\* not a preamble decides
RECURSIVE TypeFromLines(_)
TypeFromLines(lines) ==
    IF lines = <<>> THEN DefaultDocumentType.document_type
    ELSE LET line == PyStrip(Head(lines))
         IN  IF line # <<>> /\ ~StartsWith(line, BasedOn) /\ ~StartsWith(line, ThisDocument)
             THEN IF ContainsAny(PyLower(line), doc_types, Initials(doc_types))
                  THEN line
                  ELSE DefaultDocumentType.document_type
             ELSE TypeFromLines(Tail(lines))

parse_document_type(text) ==
    LET type_match == ValueSearch(text, DocumentTypeLabel)
        category_match == ValueSearch(text, CategoryLabel)
        confidence_match == LevelSearch(text, ConfidenceLabel)
        labelled == IF type_match.found THEN PyStrip(type_match.group)
                    ELSE DefaultDocumentType.document_type
    IN  [document_type |->
             IF labelled = DefaultDocumentType.document_type
             THEN TypeFromLines(Take(SplitLines(text, 1), LeadingLines))
             ELSE labelled,
         category |->
             IF category_match.found THEN PyStrip(category_match.group)
             ELSE DefaultDocumentType.category,
         confidence |->
             IF confidence_match.found THEN PyTitle(confidence_match.group)
             ELSE DefaultDocumentType.confidence]

----------------------------------------------------------------------------
(* The shared parser, its callers and the sessions of the API              *)

\* the attributes __init__ gives an InsightTextParser
InsightTextParser ==
    [patterns |-> {"risk", "compliance", "suggestion", "analysis", "intensity", "recommendation"},
     fallback_patterns |-> {"bullet_points", "numbered_points", "intensity_keywords"},
     type_keywords |-> [t \in {"risk", "compliance", "suggestion"} |-> type_keywords(t)],
     intensity_mapping |-> [w \in HighWords \cup MediumWords \cup LowWords |->
                               IF w \in HighWords THEN High
                               ELSE IF w \in MediumWords THEN Medium ELSE Low]]

\* the tasks that call the shared parser
Callers == {"first", "second"}

\* a caller with no call in progress
NoCall ==
    [pc |-> "idle", method |-> "none", response_text |-> <<>>, default_type |-> "suggestion",
     insights |-> <<>>, document_info |-> DefaultDocumentType, overlapped |-> FALSE]

\* the payload of an access token: the user name and the session it was
\* issued for
NoToken == [sub |-> "", session_uid |-> 0]

\* no request has been answered yet
NoRequest == [status |-> "none", token |-> NoToken, session_uid |-> 0]

\* the prompts of one analysis step: three generic questions, and the first
\* three of the questions of the document type
Prompts == 0..2

\* a model call that has not completed yet
Pending == [status |-> "pending", text |-> <<>>]

\* a model call, or the reading of its response, that raised
Failed == [status |-> "failed", text |-> <<>>]

\* a model call that returned the text
Returned(text) == [status |-> "returned", text |-> text]

\* the result of analyze_document_dynamic before it is built
NoResult ==
    [insights |-> <<>>, document_type |-> DefaultDocumentType, total_insights |-> 0,
     generic_insights_count |-> 0, specific_insights_count |-> 0]

\* no run of analyze_document_dynamic has started
NoRun ==
    [pc |-> "idle", doc_type_info |-> DefaultDocumentType, detection |-> Pending,
     tasks |-> [i \in Prompts |-> Pending], order |-> <<>>, next |-> 0, insights |-> <<>>,
     generic_tasks |-> [i \in Prompts |-> Pending], generic_insights |-> <<>>,
     specific_insights |-> <<>>, result |-> NoResult]


----------------------------------------------------------------------------
(* The state machine.  response_text is the text handed to the parser,     *)
(* parts the lines it was received in, default_type the caller's default   *)
(* type, insights the list under construction, pc the position inside      *)
(* parse_insights_from_text and cleaned the successive results of the      *)
(* markdown clean-up.  document_info is the result of parse_document_type, *)
(* parser the InsightTextParser shared by the calls in progress (calls),   *)
(* users the users file, tokens the access tokens issued and current_user  *)
(* the last answer of get_current_user.                                    *)

DefaultTypes == {"risk", "compliance", "suggestion", "analysis"}

Init ==
    /\ response_text = <<>>
    /\ default_type = "suggestion"
    /\ pc = "compose"
    /\ insights = <<>>
    /\ cleaned = <<>>
    /\ parts = <<>>
    /\ document_info = DefaultDocumentType
    /\ parser = InsightTextParser
    /\ calls = [c \in Callers |-> NoCall]
    /\ users = [u \in {} |-> [sessions |-> {}]]
    /\ tokens = {}
    /\ current_user = NoRequest
    /\ documents = {}
    /\ text_blocks = <<>>
    /\ run = NoRun

\* one more line of the response arrives
Receive(line) ==
    /\ pc = "compose"
    /\ parts' = Append(parts, line)
    /\ response_text' = IF parts = <<>> THEN line ELSE response_text \o <<"\n">> \o line
    /\ UNCHANGED <<default_type, pc, insights, cleaned, doc_vars, call_vars, auth_vars,
                   split_vars, client_vars>>

\* parse_insights_from_text, lines 99-104: the structured stage
StructuredStage(dt) ==
    /\ pc = "compose"
    /\ default_type' = dt
    /\ insights' = _parse_structured_format(response_text, dt)
    /\ pc' = "structured"
    /\ UNCHANGED <<response_text, cleaned, parts, doc_vars, call_vars, auth_vars,
                   split_vars, client_vars>>

\* a faulty variant of the fallback stage: the fallback extractor runs
\* whatever the structured stage found
FallbackAlways ==
    /\ pc = "structured"
    /\ insights' = insights \o _parse_unstructured_format(response_text, default_type)
    /\ pc' = "fallback"
    /\ UNCHANGED <<response_text, default_type, cleaned, parts, doc_vars, call_vars, auth_vars,
                   split_vars, client_vars>>

\* parse_insights_from_text, lines 106-109: the fallback stage
FallbackStage ==
    /\ pc = "structured"
    /\ insights' = IF insights = <<>>
                   THEN insights \o _parse_unstructured_format(response_text, default_type)
                   ELSE insights
    /\ pc' = "fallback"
    /\ UNCHANGED <<response_text, default_type, cleaned, parts, doc_vars, call_vars, auth_vars,
                   split_vars, client_vars>>

\* a faulty variant of the last stage: returns what the stages found
ReturnAsFound ==
    /\ pc = "fallback"
    /\ pc' = "done"
    /\ UNCHANGED <<response_text, default_type, insights, cleaned, parts, doc_vars, call_vars, auth_vars,
                   split_vars, client_vars>>

\* parse_insights_from_text, lines 111-121: the synthetic insight and return
AssembleStage ==
    /\ pc = "fallback"
    /\ insights' = IF insights = <<>>
                   THEN Append(insights, SyntheticInsight(response_text, default_type))
                   ELSE insights
    /\ pc' = "done"
    /\ UNCHANGED <<response_text, default_type, cleaned, parts, doc_vars, call_vars, auth_vars,
                   split_vars, client_vars>>

\* the number of lines of a response
MaxLines == 2

\* the lines responses are made of
ResponseLines ==
    { <<"R", "I", "S", "K", ":", " ", "E", "x", "c", "e", "s", "s", "i", "v", "e", " ", "l", "i", "a", "b", "i", "l", "i", "t", "y", " ", "e", "x", "p", "o", "s", "u", "r", "e">>,
      <<"A", "N", "A", "L", "Y", "S", "I", "S", ":", " ", "m", "u", "s", "t", " ", "f", "i", "x">>,
      <<"i", "n", "t", "e", "n", "s", "i", "t", "y", ":", " ", "H", "I", "G", "H">>,
      <<"I", "n", "t", "e", "n", "s", "i", "t", "y", ":", " ", "h", "U+0131", "g", "h">>,
      <<"B", "a", "s", "e", "d", " ", "o", "n", " ", "t", "h", "e", " ", "d", "o", "c", "u", "m", "e", "n", "t", " ", "p", "r", "o", "v", "i", "d", "e", "d", ".">>,
      <<"D", "o", "c", "u", "m", "e", "n", "t", " ", "a", "t", "t", "a", "c", "h", "e", "d">>,
      <<"-", " ", "P", "a", "y", "m", "e", "n", "t", " ", "t", "e", "r", "m", "s", " ", "a", "r", "e", " ", "u", "n", "c", "l", "e", "a", "r", ".">>,
      <<"1", ".", " ", "C", "o", "n", "f", "i", "d", "e", "n", "t", "i", "a", "l", "i", "t", "y", " ", "p", "e", "r", "i", "o", "d", " ", "i", "s", " ", "t", "o", "o", " ", "s", "h", "o", "r", "t", ".">>,
      <<"P", "a", "y", "m", "e", "n", "t", " ", "s", "h", "o", "u", "l", "d", " ", "b", "e", " ", "p", "r", "o", "m", "p", "t", ",", " ", "s", "e", "e", " ", "c", "l", "a", "u", "s", "e">>,
      <<>> }

Next ==
    \/ \E line \in ResponseLines : Len(parts) < MaxLines /\ Receive(line)
    \/ \E dt \in DefaultTypes : StructuredStage(dt)
    \/ FallbackStage
    \/ AssembleStage

Spec == Init /\ [][Next]_vars

----------------------------------------------------------------------------
(* _parse_single_block applied to one block                                *)

ParseSingleBlock(dt) ==
    /\ pc = "compose"
    /\ default_type' = dt
    /\ insights' = _parse_single_block(response_text, dt)
    /\ pc' = "parsed"
    /\ UNCHANGED <<response_text, cleaned, parts, doc_vars, call_vars, auth_vars,
                   split_vars, client_vars>>

\* a line "LABEL: text"
Labelled(label, text) == label \o <<":", " ">> \o text

LiabilityExposure == <<"E", "x", "c", "e", "s", "s", "i", "v", "e", " ", "l", "i", "a", "b", "i", "l", "i", "t", "y", " ", "e", "x", "p", "o", "s", "u", "r", "e">>
NoRecommendationClause == <<"N", "o", " ", "r", "e", "c", "o", "m", "m", "e", "n", "d", "a", "t", "i", "o", "n", " ", "c", "l", "a", "u", "s", "e">>
ClarifyNotice == <<"C", "l", "a", "r", "i", "f", "y", " ", "t", "e", "r", "m", "i", "n", "a", "t", "i", "o", "n", " ", "n", "o", "t", "i", "c", "e", " ", "p", "e", "r", "i", "o", "d">>
CriticalGap == <<"A", " ", "c", "r", "i", "t", "i", "c", "a", "l", " ", "g", "a", "p">>
AddCap == <<"A", "d", "d", " ", "a", " ", "l", "i", "a", "b", "i", "l", "i", "t", "y", " ", "c", "a", "p", ".">>
ReduceRisk == <<"R", "e", "d", "u", "c", "e", " ", "t", "h", "e", " ", "R", "i", "s", "k", ":", " ", "a", "d", "d", " ", "a", " ", "c", "a", "p">>

\* the content lines of blocks: label, description
BlockContents ==
    { <<RiskLabel, LiabilityExposure>>,
      <<ComplianceLabel, NoRecommendationClause>>,
      <<SuggestionLabel, ClarifyNotice>>,
      <<<<"A", "n", "a", "l", "y", "s", "i", "s">>, CriticalGap>> }

\* the intensity lines of blocks: label as written, value as written, value
\* in title case when it is one of High, Medium, Low
BlockIntensities ==
    { <<IntensityLabel, High, High>>,
      <<<<"I", "n", "t", "e", "n", "s", "i", "t", "y">>, <<"l", "O", "W">>, Low>>,
      <<IntensityLabel, <<"S", "e", "v", "e", "r", "e">>, <<>>>> }

\* the recommendation lines of blocks: label as written, text
BlockRecommendations ==
    { <<RecommendationLabel, AddCap>>,
      <<<<"R", "e", "c", "o", "m", "m", "e", "n", "d", "a", "t", "i", "o", "n">>, ReduceRisk>> }

\* a Recommendation label with nothing after it
BareRecommendation == <<"R", "E", "C", "O", "M", "M", "E", "N", "D", "A", "T", "I", "O", "N", ":">>

\* a line that begins with a label word and is not a labelled line
RisksRemain == <<"r", "i", "s", "k", "s", " ", "r", "e", "m", "a", "i", "n">>

BlockLines ==
    {Labelled(x[1], x[2]) : x \in BlockContents \cup BlockIntensities \cup BlockRecommendations}
        \cup {BareRecommendation, RisksRemain}

\* the number of lines of a block
MaxBlockLines == 3

BlockNext ==
    \/ \E line \in BlockLines : Len(parts) < MaxBlockLines /\ Receive(line)
    \/ \E dt \in DefaultTypes : ParseSingleBlock(dt)

SpecBlock == Init /\ [][BlockNext]_vars

----------------------------------------------------------------------------
(* Responses in the format the analysis prompts ask for                    *)

\* the three lines of one insight as GENERIC_ANALYSIS_QUESTIONS asks for them
PromptGroup(g) ==
    <<"-", " ">> \o Labelled(g.label, g.description) \o <<"\n">>
        \o <<"-", " ">> \o Labelled(IntensityLabel, g.intensity) \o <<"\n">>
        \o <<"-", " ">> \o Labelled(RecommendationLabel, g.recommendation)

\* one more group arrives, after the separator sep
ReceiveGroup(g, sep) ==
    /\ pc = "compose"
    /\ parts' = Append(parts, g)
    /\ response_text' = IF parts = <<>> THEN PromptGroup(g)
                        ELSE response_text \o sep \o PromptGroup(g)
    /\ UNCHANGED <<default_type, pc, insights, cleaned, doc_vars, call_vars, auth_vars,
                   split_vars, client_vars>>

PromptLabels == {RiskLabel, ComplianceLabel, SuggestionLabel, AnalysisLabel}
PromptDescriptions == {<<"L", "a", "t", "e", " ", "f", "e", "e">>, <<"O", "p", "e", "n", " ", "t", "e", "r", "m">>}
PromptIntensities == {High, Low}
PromptRecommendations == {<<"A", "d", "d", " ", "a", " ", "c", "a", "p">>}
PromptSeparators == {<<"\n">>, <<"\n", "\n">>}

PromptGroups ==
    [label : PromptLabels, description : PromptDescriptions,
     intensity : PromptIntensities, recommendation : PromptRecommendations]

\* the number of groups of a response
MaxGroups == 2

PromptNext ==
    \/ \E g \in PromptGroups, sep \in PromptSeparators :
           Len(parts) < MaxGroups /\ ReceiveGroup(g, sep)
    \/ \E dt \in DefaultTypes : StructuredStage(dt)
    \/ FallbackStage
    \/ AssembleStage

SpecPrompt == Init /\ [][PromptNext]_vars

----------------------------------------------------------------------------
(* Responses made of bullet lines                                          *)

BulletLines ==
    { <<"-", " ", "F", "e", "e", "s", " ", "u", "n", "c", "l", "e", "a", "r", ".">>,
      <<"U+2022", " ", "l", "i", "a", "b", "i", "l", "i", "t", "y", " ", "c", "a", "p">>,
      <<"-">>,
      <<"N", "o", "t", "e">> }

\* the number of lines of a bulleted response
MaxBulletLines == 6

\* the default types the bulleted responses are parsed with
BulletDefaultTypes == {"compliance", "analysis"}

BulletNext ==
    \/ \E line \in BulletLines : Len(parts) < MaxBulletLines /\ Receive(line)
    \/ \E dt \in BulletDefaultTypes : StructuredStage(dt)
    \/ FallbackStage
    \/ AssembleStage

SpecBullets == Init /\ [][BulletNext]_vars

----------------------------------------------------------------------------
(* The markdown clean-up applied twice                                     *)

\* one more character of the string to clean
Type(c) ==
    /\ pc = "compose"
    /\ response_text' = Append(response_text, c)
    /\ UNCHANGED <<default_type, pc, insights, cleaned, parts, doc_vars, call_vars, auth_vars,
                   split_vars, client_vars>>

\* the four substitutions applied to the string, then to their own result
CleanUp ==
    /\ pc \in {"compose", "cleaning"}
    /\ Len(cleaned) < 2
    /\ cleaned' = Append(cleaned, StripMarkdown(IF cleaned = <<>> THEN response_text
                                                ELSE cleaned[Len(cleaned)]))
    /\ pc' = "cleaning"
    /\ UNCHANGED <<response_text, default_type, insights, parts, doc_vars, call_vars, auth_vars,
                   split_vars, client_vars>>

MarkdownChars == {"*", "_", "a"}

\* the length of the strings cleaned
MaxStripLen == 6

StripNext ==
    \/ \E c \in MarkdownChars : Len(response_text) < MaxStripLen /\ Type(c)
    \/ CleanUp

SpecStrip == Init /\ [][StripNext]_vars

TypeOK ==
    pc \in {"compose", "structured", "fallback", "done", "parsed", "cleaning", "classified", "created", "split"}

----------------------------------------------------------------------------
(* Properties of parse_insights_from_text (Spec)                           *)

\* C1: for every non-empty response text and every default_type,
\* parse_insights_from_text returns at least one Insight.
C1_NonEmptyResult ==
    (pc = "done" /\ response_text # <<>>) => Len(insights) >= 1

\* a non-empty text from which no stage extracts anything
C1_Witness ==
    /\ pc = "done"
    /\ response_text # <<>>
    /\ Len(insights) = 1
    /\ insights[1].confidence = "0.6"

\* C2: every returned Insight has its type among risk, compliance,
\* suggestion or the supplied default_type, and its intensity among Low,
\* Medium, High, whatever the letter case of an explicit INTENSITY label.
C2_EnumeratedTypeAndIntensity ==
    pc = "done" =>
        \A i \in 1..Len(insights) :
            /\ insights[i].type \in {"risk", "compliance", "suggestion", default_type}
            /\ insights[i].intensity \in {Low, Medium, High}

\* every non-empty line of the text starts with "Based on" or "Document"
IsBoilerplateOnly(text) == ContentLines(SplitLines(text, 1)) = <<>>

\* the text holds one of the content labels, in any letter case
HasContentLabel(text) ==
    \E t \in Range(ContentTypes), c \in Colons(text) :
        LitAtI(text, c - Len(LabelOf(t)), LabelOf(t))

IsSynthetic(result, dt) ==
    /\ Len(result) = 1
    /\ result[1].type = dt
    /\ result[1].intensity = Medium
    /\ result[1].confidence = "0.6"

BoilerplateExample == <<"B", "a", "s", "e", "d", " ", "o", "n", " ", "t", "h", "e", " ", "d", "o", "c", "u", "m", "e", "n", "t", " ", "p", "r", "o", "v", "i", "d", "e", "d", ".">>

C10_NonEmptyFields ==
    pc = "done" =>
        \A i \in 1..Len(insights) :
            /\ insights[i].description # <<>>
            /\ insights[i].recommendation # <<>>

----------------------------------------------------------------------------
(* Properties of _parse_single_block (SpecBlock)                           *)

\* the type named by a label
TypeOfLabel(label) ==
    CASE label = RiskLabel -> "risk"
      [] label = ComplianceLabel -> "compliance"
      [] label = SuggestionLabel -> "suggestion"

\* C4: a block made of the three lines "L: d", "INTENSITY: v",
\* "RECOMMENDATION: r" gives exactly one Insight with type = lower-case L,
\* description = d, intensity = v, recommendation = r and confidence 0.8.
C4_ThreeLineBlock ==
    pc = "parsed" =>
        \A c \in BlockContents, v \in {High, Medium, Low}, r \in {AddCap} :
            ( /\ c[1] \in {RiskLabel, ComplianceLabel, SuggestionLabel}
              /\ parts = <<Labelled(c[1], c[2]), Labelled(IntensityLabel, v),
                           Labelled(RecommendationLabel, r)>> )
            => insights = <<ParsedInsight(TypeOfLabel(c[1]), v, c[2], r, "0.8")>>

\* the intensity lines of a block that carry one of High, Medium, Low
LabelledIntensities(lines) ==
    {k \in 1..Len(lines) :
        \E x \in BlockIntensities : lines[k] = Labelled(x[1], x[2]) /\ x[3] # <<>>}

\* the value, in title case, of intensity line k
IntensityValue(lines, k) ==
    LET x == CHOOSE y \in BlockIntensities : lines[k] = Labelled(y[1], y[2])
    IN  x[3]

\* C6: with an explicit "Intensity: High|Medium|Low" label (any letter
\* case) the intensity of the Insight is the label's value in title case,
\* whatever the description says; without one it is what _infer_intensity
\* gives for the description alone, which is Low for
\* "SUGGESTION: Clarify termination notice period".
C6_LabelThenInference ==
    (pc = "parsed" /\ insights # <<>>) =>
        /\ IF LabelledIntensities(parts) # {}
           THEN insights[1].intensity = IntensityValue(parts, Min(LabelledIntensities(parts)))
           ELSE insights[1].intensity = _infer_intensity(insights[1].description)
        /\ parts = <<Labelled(SuggestionLabel, ClarifyNotice)>> => insights[1].intensity = Low

\* a description with a High keyword under an explicit label of another
\* letter case
C6_Witness ==
    /\ pc = "parsed"
    /\ parts = <<Labelled(<<"A", "n", "a", "l", "y", "s", "i", "s">>, CriticalGap), Labelled(<<"I", "n", "t", "e", "n", "s", "i", "t", "y">>, <<"l", "O", "W">>)>>
    /\ insights # <<>>
    /\ insights[1].intensity = Low

\* the line begins with one of RISK, COMPLIANCE, SUGGESTION, ANALYSIS
StartsWithLabelWord(line) == \E t \in Range(ContentTypes) : LitAtI(line, 1, LabelOf(t))

\* the line begins with "Recommendation:"
IsRecommendationLine(line) == LitAtI(line, 1, RecommendationLabel \o <<":">>)

\* the lines up to the next one that begins with a content label
RECURSIVE UntilLabelLine(_)
UntilLabelLine(lines) ==
    IF lines = <<>> \/ StartsWithLabelWord(Head(lines)) THEN <<>>
    ELSE <<"\n">> \o Head(lines) \o UntilLabelLine(Tail(lines))

\* the text after the first Recommendation label up to the next line that
\* begins with a content label, or the end of the block
TextAfterRecommendation(lines) ==
    LET k == Min({n \in 1..Len(lines) : IsRecommendationLine(lines[n])})
    IN  PyStrip(SubSeq(lines[k], Len(RecommendationLabel) + 2, Len(lines[k]))
                    \o UntilLabelLine(SubSeq(lines, k + 1, Len(lines))))

\* C7: the recommendation is the text that follows a "Recommendation:"
\* label up to the next content label or the end of the block, and the
\* literal "Consider reviewing this item carefully." when the block has no
\* Recommendation label.  A content label is taken at the start of a line,
\* and a label with no text up to the next content label may give the
\* empty text or the literal.
C7_RecommendationBounded ==
    (pc = "parsed" /\ insights # <<>>) =>
        IF \E n \in 1..Len(parts) : IsRecommendationLine(parts[n])
        THEN IF TextAfterRecommendation(parts) = <<>>
             THEN insights[1].recommendation \in {<<>>, BlockRecommendation}
             ELSE insights[1].recommendation = TextAfterRecommendation(parts)
        ELSE insights[1].recommendation = BlockRecommendation

----------------------------------------------------------------------------
(* Responses in the prompt format (SpecPrompt)                             *)

\* C5: k groups of lines "- LABEL: d", "- INTENSITY: v", "- RECOMMENDATION:
\* r", separated by blank lines or following each other directly, give
\* exactly k insights in text order, the i-th with description d_i,
\* intensity v_i and recommendation exactly r_i.
C5_OneInsightPerGroup ==
    (pc = "done" /\ Len(parts) >= 1) =>
        /\ Len(insights) = Len(parts)
        /\ \A i \in 1..Len(parts) :
               /\ insights[i].description = parts[i].description
               /\ insights[i].intensity = parts[i].intensity
               /\ insights[i].recommendation = parts[i].recommendation

----------------------------------------------------------------------------
(* Bulleted responses (SpecBullets)                                        *)

\* the lines that start with -, the bullet or *
RECURSIVE BulletLinesOf(_)
BulletLinesOf(lines) ==
    IF lines = <<>> THEN <<>>
    ELSE (IF Head(lines) # <<>> /\ IsBulletChar(Head(lines)[1]) THEN <<Head(lines)>> ELSE <<>>)
             \o BulletLinesOf(Tail(lines))

\* the line has text after its marker
HasTextAfterMarker(line) == PyStrip(Tail(line)) # <<>>

\* one insight per bullet line, at most FallbackLimit of them, each with
\* confidence 0.7 and the type the keyword scan gives for its line
OnePerBulletLine(result, bullets, dt) ==
    /\ Len(result) = (IF Len(bullets) < FallbackLimit THEN Len(bullets) ELSE FallbackLimit)
    /\ \A i \in 1..Len(result) :
           /\ result[i].confidence = "0.7"
           /\ result[i].type = _infer_type(bullets[i], dt)

\* C8 as stated: a text with no content label and n >= 1 bullet lines gives
\* min(n, 5) insights, one per bullet line in text order, each with
\* confidence 0.7 and the type the keyword scan gives for that line
\* (default_type when no vocabulary matches).
C8_OnePerBulletLine ==
    (pc = "done" /\ BulletLinesOf(parts) # <<>>) =>
        OnePerBulletLine(insights, BulletLinesOf(parts), default_type)

\* C8 as amended: the same, for bullet lines that all have text after their
\* marker.
C8_OnePerBulletLineWithText ==
    ( /\ pc = "done"
      /\ BulletLinesOf(parts) # <<>>
      /\ \A i \in 1..Len(BulletLinesOf(parts)) : HasTextAfterMarker(BulletLinesOf(parts)[i]) )
    => OnePerBulletLine(insights, BulletLinesOf(parts), default_type)

\* more bullet lines than the limit, with a keyword and without
C8_Witness ==
    /\ pc = "done"
    /\ Len(BulletLinesOf(parts)) > FallbackLimit
    /\ \A i \in 1..Len(BulletLinesOf(parts)) : HasTextAfterMarker(BulletLinesOf(parts)[i])
    /\ Len(insights) = FallbackLimit
    /\ insights[1].type = default_type
    /\ insights[2].type = "risk"

----------------------------------------------------------------------------
(* The markdown clean-up (SpecStrip)                                       *)

\* C9: the markdown clean-up is idempotent: cleaning a cleaned string gives
\* the same string.
C9_Idempotent ==
    Len(cleaned) = 2 => cleaned[2] = cleaned[1]

----------------------------------------------------------------------------
(* The stages never mix (Spec)                                             *)

\* every insight of the result has confidence c
AllConfidence(result, c) == \A i \in 1..Len(result) : result[i].confidence = c

\* C11: the fallback interpreter contributes only when the structured
\* interpreter found nothing in the whole response: a result is what the
\* structured stage found, all with confidence 0.8, or, that being empty,
\* what the fallback stage found, all with confidence 0.7, or, both being
\* empty, the single synthetic insight with confidence 0.6.
C11_StagesNeverMix ==
    pc = "done" =>
        LET structured == _parse_structured_format(response_text, default_type)
            fallback == _parse_unstructured_format(response_text, default_type)
        IN  IF structured # <<>>
            THEN insights = structured /\ AllConfidence(insights, "0.8")
            ELSE IF fallback # <<>>
            THEN insights = fallback /\ AllConfidence(insights, "0.7")
            ELSE Len(insights) = 1 /\ insights[1].confidence = "0.6"

\* a structured result for a text in which the fallback extractor would
\* have found a bullet
C11_Witness ==
    /\ pc = "done"
    /\ insights # <<>>
    /\ AllConfidence(insights, "0.8")
    /\ _parse_unstructured_format(response_text, default_type) # <<>>
    /\ Len(bullet_points(response_text)) >= 1

----------------------------------------------------------------------------
(* Classifier answers (SpecDocument)                                       *)

\* a call of parse_document_type on the text received
ParseDocumentType ==
    /\ pc = "compose"
    /\ document_info' = parse_document_type(response_text)
    /\ pc' = "classified"
    /\ UNCHANGED <<response_text, default_type, insights, cleaned, parts, call_vars, auth_vars,
                   split_vars, client_vars>>

\* the values written after the labels of a classifier answer
LicenseAgreement == <<"S", "o", "f", "t", "w", "a", "r", "e", " ", "L", "i", "c", "e", "n", "s", "e", " ", "A", "g", "r", "e", "e", "m", "e", "n", "t">>
Technology == <<"T", "e", "c", "h", "n", "o", "l", "o", "g", "y">>

\* the lines of classifier answers: label, value
LabelledDocumentLines ==
    { <<DocumentTypeLabel, LicenseAgreement>>,
      <<<<"d", "o", "c", "u", "m", "e", "n", "t", " ", "t", "y", "p", "e">>, <<"N", "D", "A">>>>,
      <<CategoryLabel, Technology>>,
      <<ConfidenceLabel, High>>,
      <<<<"c", "o", "n", "f", "i", "d", "e", "n", "c", "e">>, <<"L", "O", "W">>>>,
      <<ConfidenceLabel, <<"H", "i", "g", "h", "e", "s", "t">>>>,
      <<ConfidenceLabel, <<"U", "n", "s", "u", "r", "e">>>> }

BareDocumentType == <<"D", "o", "c", "u", "m", "e", "n", "t", " ", "T", "y", "p", "e", ":">>
EmploymentContract == <<"E", "m", "p", "l", "o", "y", "m", "e", "n", "t", " ", "C", "o", "n", "t", "r", "a", "c", "t">>
LeaseReview == <<"T", "h", "i", "s", " ", "d", "o", "c", "u", "m", "e", "n", "t", " ", "i", "s", " ", "a", " ", "l", "e", "a", "s", "e">>
Summary == <<"A", " ", "s", "u", "m", "m", "a", "r", "y">>

DocumentLines ==
    {Labelled(x[1], x[2]) : x \in LabelledDocumentLines}
        \cup {BareDocumentType, EmploymentContract, LeaseReview, BoilerplateExample, Summary, <<>>}

\* the number of lines of a classifier answer
MaxDocumentLines == 4

DocumentNext ==
    \/ \E line \in DocumentLines : Len(parts) < MaxDocumentLines /\ Receive(line)
    \/ ParseDocumentType

SpecDocument == Init /\ [][DocumentNext]_vars

\* the lines of an answer that begin with the label, in any letter case
LinesLabelled(lines, label) ==
    {k \in 1..Len(lines) : LitAtI(lines[k], 1, label \o <<":">>)}

\* the text after the label of a labelled line, trimmed
ValueOf(line, label) == PyStrip(SubSeq(line, Len(label) + 2, Len(line)))

\* the values the lines with the label carry
ValuesLabelled(lines, label) == {ValueOf(lines[k], label) : k \in LinesLabelled(lines, label)}

\* the label occurs somewhere in the text, in any letter case
HasLabel(text, label) == \E c \in Colons(text) : LitAtI(text, c - Len(label), label)

\* what the leading lines give when no label resolves the type
Unlabelled(text) == TypeFromLines(Take(SplitLines(text, 1), LeadingLines))

\* C12: a field whose labelled line is present takes the value written
\* after the label on that line, trimmed, independently of the other labels
\* and of the following lines (a label without value may leave the field as
\* if the label were absent; a confidence value is given in title case);
\* "Document Type: T", "Category: C", "Confidence: High" gives exactly
\* {document_type: T, category: C, confidence: High}.
C12_ValueOnTheSameLine ==
    pc = "classified" =>
        LET types == ValuesLabelled(parts, DocumentTypeLabel)
            categories == ValuesLabelled(parts, CategoryLabel)
            levels == ValuesLabelled(parts, ConfidenceLabel)
        IN  /\ types # {} =>
                   document_info.document_type \in
                       (types \ {<<>>}) \cup
                           (IF <<>> \in types THEN {<<>>, Unlabelled(response_text)} ELSE {})
            /\ categories # {} => document_info.category \in categories
            /\ (levels # {} /\ \A v \in levels : PyTitle(v) \in {High, Medium, Low}) =>
                   document_info.confidence \in {PyTitle(v) : v \in levels}
            /\ parts = <<Labelled(DocumentTypeLabel, LicenseAgreement),
                         Labelled(CategoryLabel, Technology),
                         Labelled(ConfidenceLabel, High)>> =>
                   document_info = [document_type |-> LicenseAgreement,
                                    category |-> Technology, confidence |-> High]

\* line k is the first of the leading lines that is neither empty nor a
\* preamble, and it holds a document-type noun
Qualifies(lines, k) ==
    LET skipped(j) == \/ PyStrip(lines[j]) = <<>>
                      \/ StartsWith(PyStrip(lines[j]), BasedOn)
                      \/ StartsWith(PyStrip(lines[j]), ThisDocument)
    IN  /\ ~skipped(k)
        /\ \A j \in 1..(k - 1) : skipped(j)
        /\ \E w \in doc_types : Contains(PyLower(lines[k]), w)

\* C13: parse_document_type returns a result with its three fields for
\* every text, and for a text with no label and no qualifying line among
\* its leading lines the result is exactly {Unknown Document, Legal,
\* Medium}.
C13_DefaultsWithoutSignal ==
    pc = "classified" =>
        /\ DOMAIN document_info = {"document_type", "category", "confidence"}
        /\ ( /\ \A label \in {DocumentTypeLabel, CategoryLabel, ConfidenceLabel} :
                    ~HasLabel(response_text, label)
             /\ \A k \in 1..Len(parts) : k <= LeadingLines => ~Qualifies(parts, k) )
           => document_info = DefaultDocumentType

\* an answer without label whose first line that counts holds no
\* document-type noun, although a later one does
C13_Witness ==
    /\ pc = "classified"
    /\ parts = <<LeaseReview, Summary, EmploymentContract>>
    /\ document_info = DefaultDocumentType

\* C14: the confidence is always one of High, Medium, Low: that of a
\* Confidence label whose value is exactly High, Medium or Low in any
\* letter case, in title case, and Medium when the answer has no such label.
C14_ExactConfidence ==
    pc = "classified" =>
        LET exact == {PyTitle(v) : v \in ValuesLabelled(parts, ConfidenceLabel)}
                         \cap {High, Medium, Low}
        IN  /\ document_info.confidence \in {High, Medium, Low}
            /\ IF exact = {} THEN document_info.confidence = Medium
               ELSE document_info.confidence \in exact

\* the lines of an answer that are not empty, trimmed
RECURSIVE NonEmptyLines(_)
NonEmptyLines(lines) ==
    IF lines = <<>> THEN <<>>
    ELSE (IF PyStrip(Head(lines)) # <<>> THEN <<PyStrip(Head(lines))>> ELSE <<>>)
             \o NonEmptyLines(Tail(lines))

\* the type the first line that is neither empty nor a preamble gives
TypeOfFirstRemaining(lines) ==
    LET remaining == {k \in 1..Len(lines) :
                         /\ PyStrip(lines[k]) # <<>>
                         /\ ~StartsWith(PyStrip(lines[k]), BasedOn)
                         /\ ~StartsWith(PyStrip(lines[k]), ThisDocument)}
    IN  IF remaining # {} /\ \E w \in doc_types : Contains(PyLower(lines[Min(remaining)]), w)
        THEN PyStrip(lines[Min(remaining)])
        ELSE DefaultDocumentType.document_type

\* C15 as stated: without Document Type label, the first three non-empty
\* lines are considered, those that start with "Based on" or "This
\* document" are skipped, and the first remaining line becomes the type
\* exactly when it holds one of the document-type nouns; otherwise the type
\* stays "Unknown Document".
C15_FirstThreeNonEmptyLines ==
    (pc = "classified" /\ LinesLabelled(parts, DocumentTypeLabel) = {}) =>
        document_info.document_type =
            TypeOfFirstRemaining(Take(NonEmptyLines(parts), LeadingLines))

\* C15 as amended: the same over the first three lines of the text, the
\* empty ones counted.
C15_FirstThreeLines ==
    (pc = "classified" /\ LinesLabelled(parts, DocumentTypeLabel) = {}) =>
        document_info.document_type =
            TypeOfFirstRemaining(Take(parts, LeadingLines))

\* a document-type line in fourth place, after an empty line and two
\* preambles
C15_Witness ==
    /\ pc = "classified"
    /\ parts = <<<<>>, BoilerplateExample, LeaseReview, EmploymentContract>>
    /\ document_info.document_type = DefaultDocumentType.document_type

----------------------------------------------------------------------------
(* Calls interleaved on one shared parser (SpecCalls).  Each caller keeps  *)
(* the locals of its call in calls[c]; overlapped records that another     *)
(* call took a step while this one was in progress.                        *)

InProgress == {"called", "structured", "fallback"}

\* caller c moves to the record new; the calls in progress meanwhile are
\* marked as overlapped
Step(c, new) ==
    calls' = [d \in Callers |->
                 IF d = c
                 THEN [new EXCEPT !.overlapped =
                          @ \/ \E e \in Callers \ {c} : calls[e].pc \in InProgress]
                 ELSE IF calls[d].pc \in InProgress
                 THEN [calls[d] EXCEPT !.overlapped = TRUE]
                 ELSE calls[d]]

\* self.parser.parse_insights_from_text(response_text, default_type) or
\* self.parser.parse_document_type(response_text) is entered
Call(c, method, text, dt) ==
    /\ calls[c].pc = "idle"
    /\ Step(c, [NoCall EXCEPT !.pc = "called", !.method = method,
                              !.response_text = text, !.default_type = dt])
    /\ UNCHANGED <<response_text, default_type, pc, insights, cleaned, parts,
                   doc_vars, parser, auth_vars, split_vars, client_vars>>

\* a faulty variant of the structured stage: the caller's default type gets
\* an entry in the shared keyword table
StructuredStepKeepingType(c) ==
    /\ calls[c].pc = "called"
    /\ calls[c].method = "parse_insights_from_text"
    /\ Step(c, [calls[c] EXCEPT !.pc = "structured",
                    !.insights = _parse_structured_format(calls[c].response_text,
                                                          calls[c].default_type)])
    /\ parser' = [parser EXCEPT !.type_keywords =
                      [t \in DOMAIN parser.type_keywords \cup {calls[c].default_type} |->
                          IF t \in DOMAIN parser.type_keywords
                          THEN parser.type_keywords[t] ELSE {}]]
    /\ UNCHANGED <<response_text, default_type, pc, insights, cleaned, parts,
                   doc_vars, auth_vars, split_vars, client_vars>>

\* parse_insights_from_text, lines 99-104, in caller c
StructuredStep(c) ==
    /\ calls[c].pc = "called"
    /\ calls[c].method = "parse_insights_from_text"
    /\ Step(c, [calls[c] EXCEPT !.pc = "structured",
                    !.insights = _parse_structured_format(calls[c].response_text,
                                                          calls[c].default_type)])
    /\ UNCHANGED <<response_text, default_type, pc, insights, cleaned, parts,
                   doc_vars, parser, auth_vars, split_vars, client_vars>>

\* parse_insights_from_text, lines 106-109, in caller c
FallbackStep(c) ==
    /\ calls[c].pc = "structured"
    /\ Step(c, [calls[c] EXCEPT !.pc = "fallback",
                    !.insights = IF @ = <<>>
                                 THEN @ \o _parse_unstructured_format(calls[c].response_text,
                                                                      calls[c].default_type)
                                 ELSE @])
    /\ UNCHANGED <<response_text, default_type, pc, insights, cleaned, parts,
                   doc_vars, parser, auth_vars, split_vars, client_vars>>

\* parse_insights_from_text, lines 111-121, in caller c
AssembleStep(c) ==
    /\ calls[c].pc = "fallback"
    /\ Step(c, [calls[c] EXCEPT !.pc = "returned",
                    !.insights = IF @ = <<>>
                                 THEN Append(@, SyntheticInsight(calls[c].response_text,
                                                                 calls[c].default_type))
                                 ELSE @])
    /\ UNCHANGED <<response_text, default_type, pc, insights, cleaned, parts,
                   doc_vars, parser, auth_vars, split_vars, client_vars>>

\* parse_document_type in caller c
ClassifyStep(c) ==
    /\ calls[c].pc = "called"
    /\ calls[c].method = "parse_document_type"
    /\ Step(c, [calls[c] EXCEPT !.pc = "returned",
                    !.document_info = parse_document_type(calls[c].response_text)])
    /\ UNCHANGED <<response_text, default_type, pc, insights, cleaned, parts,
                   doc_vars, parser, auth_vars, split_vars, client_vars>>

\* the answers handed to the shared parser
CallTexts ==
    { <<"R", "I", "S", "K", ":", " ", "E", "x", "c", "e", "s", "s", "i", "v", "e", " ", "l", "i", "a", "b", "i", "l", "i", "t", "y", " ", "e", "x", "p", "o", "s", "u", "r", "e">>,
      <<"-", " ", "P", "a", "y", "m", "e", "n", "t", " ", "t", "e", "r", "m", "s", " ", "a", "r", "e", " ", "u", "n", "c", "l", "e", "a", "r", ".">>,
      <<"D", "o", "c", "u", "m", "e", "n", "t", " ", "a", "t", "t", "a", "c", "h", "e", "d">>,
      <<"A", "N", "A", "L", "Y", "S", "I", "S", ":", " ", "m", "u", "s", "t", " ", "f", "i", "x">>,
      <<"D", "o", "c", "u", "m", "e", "n", "t", " ", "T", "y", "p", "e", ":", " ", "L", "e", "a", "s", "e">> }

CallNext ==
    \/ \E c \in Callers, text \in CallTexts :
           \/ \E dt \in {"risk", "analysis"} : Call(c, "parse_insights_from_text", text, dt)
           \/ Call(c, "parse_document_type", text, "suggestion")
    \/ \E c \in Callers : StructuredStep(c)
    \/ \E c \in Callers : FallbackStep(c)
    \/ \E c \in Callers : AssembleStep(c)
    \/ \E c \in Callers : ClassifyStep(c)

SpecCalls == Init /\ [][CallNext]_vars

\* C16: no call modifies the parser's pattern tables, keyword vocabularies
\* or intensity mapping, and every call on the shared parser, however it is
\* interleaved with the others, returns what the same call returns when
\* run alone.
C16_CallsDoNotInterfere ==
    /\ parser = InsightTextParser
    /\ \A c \in Callers :
           calls[c].pc = "returned" =>
               IF calls[c].method = "parse_insights_from_text"
               THEN calls[c].insights =
                        parse_insights_from_text(calls[c].response_text, calls[c].default_type)
               ELSE calls[c].document_info = parse_document_type(calls[c].response_text)

\* two calls that overlapped, on different answers, have both returned
C16_Witness ==
    /\ \A c \in Callers : calls[c].pc = "returned" /\ calls[c].overlapped
    /\ calls["first"].response_text # calls["second"].response_text
    /\ calls["first"].method = "parse_insights_from_text"
    /\ calls["second"].method = "parse_insights_from_text"
    /\ calls["first"].insights # calls["second"].insights

----------------------------------------------------------------------------
(* Sessions of the API (SpecAuth).  users is the users file; tokens holds, *)
(* for every access token issued, its payload, whether its expiry time has *)
(* passed and, as history only, whether a logout made with it succeeded:   *)
(* the server keeps no record of tokens.  current_user is the outcome of   *)
(* the last request that carried a token, with the session the endpoint    *)
(* looked up, and documents the files saved in the session directories.    *)

UserNames == {"alice", "bob"}

\* the number of sessions created
MaxSessions == 3

\* a token the server never signed
Forged == [sub |-> "alice", session_uid |-> 0]

Payload(x) == [sub |-> x.sub, session_uid |-> x.session_uid]

\* the tokens a client can present
Presentable == {Payload(x) : x \in tokens} \cup {Forged}

\* verify_token: the signature is the server's and the expiry time has not
\* passed
verify_token(token) ==
    \E x \in tokens : Payload(x) = token /\ ~x.expired

\* get_current_user: the status of the answer
get_current_user(token) ==
    IF verify_token(token) /\ token.sub \in DOMAIN users THEN "200" ELSE "401"

AllSessions == UNION {users[u].sessions : u \in DOMAIN users}

\* the identifiers uuid.uuid4 can draw, in the order in which their strings
\* compare
SessionIds == 1..MaxSessions

\* the identifiers no session has yet
FreshIds == SessionIds \ {s.session_uid : s \in AllSessions}

\* create_session: the users file with one more session of username, under
\* the identifier drawn
create_session(file, username, session_uid) ==
    [file EXCEPT ![username].sessions =
        @ \cup {[session_uid |-> session_uid, created_at |-> Cardinality(AllSessions) + 1]}]

\* max(current_user["sessions"].keys()): the greatest identifier
latest_session(username) ==
    LET keys == {s.session_uid : s \in users[username].sessions}
    IN  CHOOSE k \in keys : \A other \in keys : other <= k

\* POST /register
register(username) ==
    /\ username \notin DOMAIN users
    /\ \E session_uid \in FreshIds :
           users' = create_session([u \in DOMAIN users \cup {username} |->
                                       IF u = username THEN [sessions |-> {}] ELSE users[u]],
                                   username, session_uid)
    /\ UNCHANGED <<response_text, default_type, pc, insights, cleaned, parts,
                   doc_vars, call_vars, tokens, current_user, documents,
                   split_vars, client_vars>>

\* POST /login with the right password
login(username) ==
    /\ username \in DOMAIN users
    /\ \E session_uid \in FreshIds :
           /\ users' = create_session(users, username, session_uid)
           /\ tokens' = tokens \cup {[sub |-> username, session_uid |-> session_uid,
                                      expired |-> FALSE, logged_out |-> FALSE]}
    /\ UNCHANGED <<response_text, default_type, pc, insights, cleaned, parts,
                   doc_vars, call_vars, current_user, documents, split_vars, client_vars>>

\* POST /logout: get_current_user, then the success message
logout(token) ==
    /\ IF get_current_user(token) = "200"
       THEN /\ tokens' = {IF Payload(x) = token THEN [x EXCEPT !.logged_out = TRUE] ELSE x :
                             x \in tokens}
            /\ current_user' = [status |-> "logged out", token |-> token, session_uid |-> 0]
       ELSE /\ tokens' = tokens
            /\ current_user' = [status |-> "401", token |-> token, session_uid |-> 0]
    /\ UNCHANGED <<response_text, default_type, pc, insights, cleaned, parts,
                   doc_vars, call_vars, users, documents, split_vars, client_vars>>

\* GET /me: get_current_user, then the user's data
get_current_user_info(token) ==
    /\ current_user' = IF get_current_user(token) = "200"
                       THEN [status |-> "200", token |-> token,
                             session_uid |-> latest_session(token.sub)]
                       ELSE [status |-> "401", token |-> token, session_uid |-> 0]
    /\ UNCHANGED <<response_text, default_type, pc, insights, cleaned, parts,
                   doc_vars, call_vars, users, tokens, documents, split_vars, client_vars>>

\* the number of documents uploaded
MaxDocuments == 1

\* POST /upload: get_current_user, then the file is saved in the directory
\* of the session looked up
upload_document(token) ==
    /\ Cardinality(documents) < MaxDocuments
    /\ IF get_current_user(token) = "200"
       THEN LET session_uid == latest_session(token.sub)
            IN  /\ documents' = documents \cup {[user |-> token.sub, session_uid |-> session_uid,
                                                 doc_id |-> Cardinality(documents) + 1]}
                /\ current_user' = [status |-> "200", token |-> token,
                                    session_uid |-> session_uid]
       ELSE /\ documents' = documents
            /\ current_user' = [status |-> "401", token |-> token, session_uid |-> 0]
    /\ UNCHANGED <<response_text, default_type, pc, insights, cleaned, parts,
                   doc_vars, call_vars, users, tokens, split_vars, client_vars>>

\* POST /process-document: get_current_user, then the text of the document
\* is read from the directory of the session looked up
process_document(token, doc_id) ==
    /\ current_user' =
           IF get_current_user(token) # "200"
           THEN [status |-> "401", token |-> token, session_uid |-> 0]
           ELSE LET session_uid == latest_session(token.sub)
                IN  [status |-> IF [user |-> token.sub, session_uid |-> session_uid,
                                    doc_id |-> doc_id] \in documents
                                THEN "200" ELSE "404",
                     token |-> token, session_uid |-> session_uid]
    /\ UNCHANGED <<response_text, default_type, pc, insights, cleaned, parts,
                   doc_vars, call_vars, users, tokens, documents, split_vars, client_vars>>

\* the expiry time of a token passes
Expire(token) ==
    /\ \E x \in tokens : Payload(x) = token /\ ~x.expired
    /\ tokens' = {IF Payload(x) = token THEN [x EXCEPT !.expired = TRUE] ELSE x : x \in tokens}
    /\ UNCHANGED <<response_text, default_type, pc, insights, cleaned, parts,
                   doc_vars, call_vars, users, current_user, documents,
                   split_vars, client_vars>>

AuthNext ==
    \/ \E username \in UserNames : register(username)
    \/ \E username \in UserNames : login(username)
    \/ \E token \in Presentable : logout(token)
    \/ \E token \in Presentable : get_current_user_info(token)
    \/ \E token \in Presentable : upload_document(token)
    \/ \E token \in Presentable, doc_id \in 1..MaxDocuments : process_document(token, doc_id)
    \/ \E token \in Presentable : Expire(token)

SpecAuth == Init /\ [][AuthNext]_vars

\* C17: after a successful logout the session is invalidated: no later
\* request that carries the same token is accepted by get_current_user.
C17_LogoutInvalidates ==
    current_user.status = "200" =>
        \A x \in tokens : Payload(x) = current_user.token => ~x.logged_out

----------------------------------------------------------------------------
(* The priority of the content labels (SpecBlock)                          *)

PriorityOrder == <<"risk", "compliance", "suggestion", "analysis">>

\* the text that follows the first occurrence of the label, trimmed
TextAfterLabel(text, label) ==
    LET c == Min({x \in Colons(text) : LitAtI(text, x - Len(label), label)})
    IN  PyStrip(SubSeq(text, c + 1, Len(text)))

IsPrefix(p, s) == Len(p) <= Len(s) /\ SubSeq(s, 1, Len(p)) = p

\* C18: of the content labels a block holds, the first in the order risk,
\* compliance, suggestion, analysis gives the insight, wherever the labels
\* stand in the block: the description begins the text after that label,
\* the type is that label's, and the caller's default_type when the label
\* is analysis; a block without content label gives no insight.
C18_LabelPriority ==
    pc = "parsed" =>
        LET present == {i \in 1..Len(PriorityOrder) :
                           HasLabel(response_text, LabelOf(PriorityOrder[i]))}
            winner == PriorityOrder[Min(present)]
        IN  IF present = {} THEN insights = <<>>
            ELSE /\ Len(insights) = 1
                 /\ insights[1].type = (IF winner = "analysis" THEN default_type ELSE winner)
                 /\ insights[1].description # <<>>
                 /\ IsPrefix(insights[1].description,
                             TextAfterLabel(response_text, LabelOf(winner)))

\* a block whose suggestion label stands before its risk label
C18_Witness ==
    /\ pc = "parsed"
    /\ parts = <<Labelled(SuggestionLabel, ClarifyNotice), Labelled(RiskLabel, LiabilityExposure)>>
    /\ insights # <<>>
    /\ insights[1].type = "risk"
    /\ insights[1].description = LiabilityExposure

----------------------------------------------------------------------------
(* Inference on a fragment (SpecInfer): the fragment is made of words       *)
(* separated by spaces and handed to _create_insight_from_text.            *)

\* one more word of the fragment
Say(word) ==
    /\ pc = "compose"
    /\ parts' = Append(parts, word)
    /\ response_text' = IF parts = <<>> THEN word ELSE response_text \o <<" ">> \o word
    /\ UNCHANGED <<default_type, pc, insights, cleaned, doc_vars, call_vars, auth_vars,
                   split_vars, client_vars>>

\* _create_insight_from_text on the fragment
CreateInsight(dt) ==
    /\ pc = "compose"
    /\ default_type' = dt
    /\ insights' = <<_create_insight_from_text(response_text, dt)>>
    /\ pc' = "created"
    /\ UNCHANGED <<response_text, cleaned, parts, doc_vars, call_vars, auth_vars,
                   split_vars, client_vars>>

FragmentWords ==
    { <<"h", "i", "g", "h">>, <<"m", "i", "n", "o", "r">>, <<"I", "m", "p", "o", "r", "t", "a", "n", "t">>, <<"m", "u", "s", "t">>, <<"s", "h", "o", "u", "l", "d">>, <<"h", "U+0131", "g", "h">>,
      <<"u", "n", "c", "r", "i", "t", "i", "c", "a", "l">>, <<"R", "I", "S", "K">>, <<"l", "e", "g", "a", "l">>, <<"i", "m", "p", "r", "o", "v", "e">>, <<"f", "e", "e">> }

\* the number of words of a fragment
MaxWords == 3

InferNext ==
    \/ \E word \in FragmentWords : Len(parts) < MaxWords /\ Say(word)
    \/ \E dt \in {"suggestion", "analysis"} : CreateInsight(dt)

SpecInfer == Init /\ [][InferNext]_vars

\* one of the words of the fragment is, in lower case, a word of the tier
HasWordOf(words, tier) == \E k \in 1..Len(words) : PyLower(words[k]) \in tier

\* the fragment contains, in lower case, one of the indicators
ContainsOneOf(text, indicators) == \E w \in indicators : Contains(PyLower(text), w)

\* C19: _infer_intensity gives High when critical, high, significant, major
\* or serious occurs as a word, else Medium when important, medium or
\* moderate does, else Low when low, minor or minimal does; with no such
\* word it gives High when the text contains must, required, critical,
\* essential or urgent, else Medium when it contains should, recommended,
\* important or consider, else Low.
C19_IntensityTiers ==
    pc = "created" =>
        insights[1].intensity =
            (IF HasWordOf(parts, HighWords) THEN High
             ELSE IF HasWordOf(parts, MediumWords) THEN Medium
             ELSE IF HasWordOf(parts, LowWords) THEN Low
             ELSE IF ContainsOneOf(response_text, HighIndicators) THEN High
             ELSE IF ContainsOneOf(response_text, MediumIndicators) THEN Medium
             ELSE Low)

\* C20: _infer_type gives risk when the fragment contains a risk keyword,
\* else compliance when it contains a compliance keyword, else suggestion
\* when it contains a suggestion keyword, else the caller's default_type.
C20_FirstVocabularyWins ==
    pc = "created" =>
        insights[1].type =
            (IF ContainsOneOf(response_text, Range(type_keywords("risk"))) THEN "risk"
             ELSE IF ContainsOneOf(response_text, Range(type_keywords("compliance")))
             THEN "compliance"
             ELSE IF ContainsOneOf(response_text, Range(type_keywords("suggestion")))
             THEN "suggestion"
             ELSE default_type)

\* a fragment with a keyword of each vocabulary, the risk one last
C20_Witness ==
    /\ pc = "created"
    /\ parts = <<<<"s", "h", "o", "u", "l", "d">>, <<"l", "e", "g", "a", "l">>, <<"R", "I", "S", "K">>>>
    /\ insights[1].type = "risk"

----------------------------------------------------------------------------
(* The chain of fallback stages (SpecFallback): responses made of bullet   *)
(* lines, numbered lines and plain sentences.                              *)

FallbackLines ==
    { <<"-", " ", "F", "e", "e", "s", " ", "u", "n", "c", "l", "e", "a", "r", ".">>,
      <<"-">>,
      <<"1", ".", " ", "C", "a", "p", " ", "l", "i", "a", "b", "i", "l", "i", "t", "y", " ", "n", "o", "w", ".">>,
      <<"P", "a", "y", "m", "e", "n", "t", " ", "i", "s", " ", "d", "u", "e", " ", "i", "n", " ", "t", "h", "i", "r", "t", "y", " ", "d", "a", "y", "s", ".">> }

\* the number of lines of such a response
MaxFallbackLines == 6

FallbackNext ==
    \/ \E line \in FallbackLines : Len(parts) < MaxFallbackLines /\ Receive(line)
    \/ StructuredStage("analysis")
    \/ FallbackStage
    \/ AssembleStage

SpecFallback == Init /\ [][FallbackNext]_vars

\* the line starts with a number and a period
IsNumberedLine(line) ==
    \E d \in 2..Len(line) : line[d] = "." /\ \A p \in 1..(d - 1) : IsDigit(line[p])

IsBulletLine(line) == line # <<>> /\ IsBulletChar(line[1])

\* the text after the marker of a bullet or numbered line
AfterMarker(line) ==
    IF IsBulletLine(line) THEN Tail(line)
    ELSE SubSeq(line, Min({d \in 1..Len(line) : line[d] = "."}) + 1, Len(line))

\* some line of the wanted kind has text after its marker, on the line
\* itself or on a line below
MarkerWithText(lines, IsMarked(_)) ==
    \E k \in 1..Len(lines) :
        /\ IsMarked(lines[k])
        /\ \/ PyStrip(AfterMarker(lines[k])) # <<>>
           \/ \E j \in (k + 1)..Len(lines) : PyStrip(lines[j]) # <<>>

\* what each stage makes of the text
BulletStage(text, dt) == CreateInsights(Take(bullet_points(text), FallbackLimit), dt)
NumberedStage(text, dt) == CreateInsights(Take(numbered_points(text), FallbackLimit), dt)
SentenceStage(text, dt) ==
    CreateInsights(StripLongerThan(Take(_split_into_sentences(text), SentenceLimit),
                                   InsightMinLen), dt)

\* the synthetic insight is returned only when the structured and the
\* fallback stage produced nothing, and the fallback stage returns at most
\* FallbackLimit insights
SyntheticLast ==
    /\ (pc = "fallback" /\ _parse_structured_format(response_text, default_type) = <<>>)
           => Len(insights) <= FallbackLimit
    /\ (pc = "done" /\ insights[1].confidence = "0.6")
           => /\ _parse_structured_format(response_text, default_type) = <<>>
              /\ BulletStage(response_text, default_type) = <<>>
              /\ NumberedStage(response_text, default_type) = <<>>
              /\ SentenceStage(response_text, default_type) = <<>>

\* C21 as stated: the numbered stage is used only when the text has no
\* bullet line, the sentence stage only when it has neither a bullet nor a
\* numbered line, the synthetic insight only when every earlier stage
\* produced nothing, and the fallback extractor returns at most 5 insights.
C21_ChainByLines ==
    /\ SyntheticLast
    /\ (pc = "fallback" /\ _parse_structured_format(response_text, default_type) = <<>>)
           => insights =
                 (IF \E k \in 1..Len(parts) : IsBulletLine(parts[k])
                  THEN BulletStage(response_text, default_type)
                  ELSE IF \E k \in 1..Len(parts) : IsNumberedLine(parts[k])
                  THEN NumberedStage(response_text, default_type)
                  ELSE SentenceStage(response_text, default_type))

\* C21 as amended: the same chain, a stage being passed over when no line
\* with its marker has text after the marker.
C21_ChainByLinesWithText ==
    /\ SyntheticLast
    /\ (pc = "fallback" /\ _parse_structured_format(response_text, default_type) = <<>>)
           => insights =
                 (IF MarkerWithText(parts, IsBulletLine)
                  THEN BulletStage(response_text, default_type)
                  ELSE IF MarkerWithText(parts, IsNumberedLine)
                  THEN NumberedStage(response_text, default_type)
                  ELSE SentenceStage(response_text, default_type))

\* a numbered line, a sentence and a bare bullet marker at the end: the
\* numbered stage is the one used
C21_Witness ==
    /\ pc = "fallback"
    /\ parts = <<<<"P", "a", "y", "m", "e", "n", "t", " ", "i", "s", " ", "d", "u", "e", " ", "i", "n", " ", "t", "h", "i", "r", "t", "y", " ", "d", "a", "y", "s", ".">>, <<"1", ".", " ", "C", "a", "p", " ", "l", "i", "a", "b", "i", "l", "i", "t", "y", " ", "n", "o", "w", ".">>, <<"-">>>>
    /\ Len(insights) = 1
    /\ insights[1].description = <<"C", "a", "p", " ", "l", "i", "a", "b", "i", "l", "i", "t", "y", " ", "n", "o", "w">>

----------------------------------------------------------------------------
(* The sentence stage (SpecSentences): responses made of sentences         *)
(* separated by spaces, with no label, bullet or numbered line.            *)

Sentences ==
    { <<"O", "k", " ", "t", "h", "e", "n", "!">>,
      <<"P", "a", "y", " ", "t", "h", "e", " ", "f", "e", "e", "s", " ", "n", "o", "w", ".">>,
      <<"T", "h", "e", " ", "l", "a", "n", "d", "l", "o", "r", "d", " ", "m", "u", "s", "t", " ", "r", "e", "p", "a", "i", "r", " ", "t", "h", "e", " ", "r", "o", "o", "f", "?">>,
      <<"T", "h", "e", " ", "t", "e", "n", "a", "n", "t", " ", "k", "e", "e", "p", "s", " ", "t", "h", "e", " ", "g", "a", "r", "d", "e", "n", " ", "t", "i", "d", "y", ".">> }

\* the number of sentences of such a response
MaxSentences == 4

SentenceNext ==
    \/ \E sentence \in Sentences : Len(parts) < MaxSentences /\ Say(sentence)
    \/ \E dt \in {"compliance", "analysis"} : StructuredStage(dt)
    \/ FallbackStage
    \/ AssembleStage

SpecSentences == Init /\ [][SentenceNext]_vars

\* the sentences without their final mark
RECURSIVE Fragments(_)
Fragments(sentences) ==
    IF sentences = <<>> THEN <<>>
    ELSE <<SubSeq(Head(sentences), 1, Len(Head(sentences)) - 1)>> \o Fragments(Tail(sentences))

\* the fragments longer than n characters, in order
RECURSIVE LongerThan(_, _)
LongerThan(fragments, n) ==
    IF fragments = <<>> THEN <<>>
    ELSE (IF Len(Head(fragments)) > n THEN <<Head(fragments)>> ELSE <<>>)
             \o LongerThan(Tail(fragments), n)

\* one insight per fragment, in order
OnePerFragment(result, fragments) ==
    /\ Len(result) = Len(fragments)
    /\ \A i \in 1..Len(result) : result[i].description = fragments[i]

\* C22 as stated: the fragments longer than 10 characters are kept and each
\* of the first 3 kept fragments yields one insight, so that m kept
\* fragments yield min(m, 3) insights.
C22_OnePerKeptFragment ==
    pc = "fallback" =>
        OnePerFragment(insights, Take(LongerThan(Fragments(parts), SentenceMinLen),
                                      SentenceLimit))

\* C22 as amended: of the first 3 kept fragments, those longer than 20
\* characters yield one insight each.
C22_OnePerLongKeptFragment ==
    pc = "fallback" =>
        OnePerFragment(insights,
                       LongerThan(Take(LongerThan(Fragments(parts), SentenceMinLen),
                                       SentenceLimit), InsightMinLen))

\* four kept fragments, the first of them of 16 characters: two insights
C22_Witness ==
    /\ pc = "fallback"
    /\ parts = <<<<"P", "a", "y", " ", "t", "h", "e", " ", "f", "e", "e", "s", " ", "n", "o", "w", ".">>, <<"T", "h", "e", " ", "l", "a", "n", "d", "l", "o", "r", "d", " ", "m", "u", "s", "t", " ", "r", "e", "p", "a", "i", "r", " ", "t", "h", "e", " ", "r", "o", "o", "f", "?">>,
                 <<"T", "h", "e", " ", "t", "e", "n", "a", "n", "t", " ", "k", "e", "e", "p", "s", " ", "t", "h", "e", " ", "g", "a", "r", "d", "e", "n", " ", "t", "i", "d", "y", ".">>,
                 <<"T", "h", "e", " ", "l", "a", "n", "d", "l", "o", "r", "d", " ", "m", "u", "s", "t", " ", "r", "e", "p", "a", "i", "r", " ", "t", "h", "e", " ", "r", "o", "o", "f", "?">>>>
    /\ Len(insights) = 2

----------------------------------------------------------------------------
(* The block boundaries (SpecSplit): _split_into_blocks applied to a       *)
(* response.                                                               *)

SplitIntoBlocks ==
    /\ pc = "compose"
    /\ text_blocks' = _split_into_blocks(response_text)
    /\ pc' = "split"
    /\ UNCHANGED <<response_text, default_type, insights, cleaned, parts,
                   doc_vars, call_vars, auth_vars, client_vars>>

TextLines ==
    { <<"R", "I", "S", "K", ":", " ", "F", "e", "e", " ", "c", "a", "p">>,
      <<"-", " ", "F", "e", "e", "s", " ", "u", "n", "c", "l", "e", "a", "r", ".">>,
      <<"1", ".", " ", "C", "a", "p", " ", "l", "i", "a", "b", "i", "l", "i", "t", "y", ".">>,
      <<"S", "e", "e", " ", "s", "e", "c", "t", "i", "o", "n", " ", "2", ".", "1", " ", "b", "e", "l", "o", "w">>,
      <<"N", "o", "t", "e">>,
      <<>> }

\* the number of lines of a response to split
MaxTextLines == 3

SplitNext ==
    \/ \E line \in TextLines : Len(parts) < MaxTextLines /\ Receive(line)
    \/ SplitIntoBlocks

SpecSplit == Init /\ [][SplitNext]_vars

\* the line starts with one of the four upper-case labels and a colon
IsLabelledLine(line) ==
    \E t \in Range(ContentTypes) : StartsWith(line, LabelOf(t) \o <<":">>)

\* the blocks of a response received as lines: a blank line closes the
\* block under construction; a line starting with a label, a bullet marker
\* or a number opens a new one; any other line continues it
RECURSIVE BlocksOfLines(_, _)
BlocksOfLines(lines, current) ==
    LET closed == IF current = <<>> THEN <<>> ELSE <<current>>
    IN  IF lines = <<>> THEN closed
        ELSE IF PyStrip(Head(lines)) = <<>> THEN closed \o BlocksOfLines(Tail(lines), <<>>)
        ELSE IF \/ IsLabelledLine(Head(lines))
                \/ IsBulletLine(Head(lines))
                \/ IsNumberedLine(Head(lines))
             THEN closed \o BlocksOfLines(Tail(lines), Head(lines))
        ELSE BlocksOfLines(Tail(lines),
                           IF current = <<>> THEN Head(lines)
                           ELSE current \o <<"\n">> \o Head(lines))

\* C23: _split_into_blocks places a block boundary exactly at the blank
\* lines and before each label, each bullet marker that starts a line and
\* each number that starts a line; digits followed by a period in the
\* middle of a line open no block.
C23_BoundariesAtLineStarts ==
    pc = "split" => text_blocks = BlocksOfLines(parts, <<>>)

----------------------------------------------------------------------------
(* Descriptions that run over several lines (SpecBlock)                    *)

\* the line begins with "Intensity:" or "Recommendation:"
IsNextLabelLine(line) ==
    \/ LitAtI(line, 1, IntensityLabel \o <<":">>)
    \/ LitAtI(line, 1, RecommendationLabel \o <<":">>)

\* the lines up to the next Intensity or Recommendation label
RECURSIVE UntilNextLabel(_)
UntilNextLabel(lines) ==
    IF lines = <<>> \/ IsNextLabelLine(Head(lines)) THEN <<>>
    ELSE <<"\n">> \o Head(lines) \o UntilNextLabel(Tail(lines))

\* the descriptions that hold neither of the words intensity and
\* recommendation
PlainContents == {c \in BlockContents : c[2] # NoRecommendationClause}

\* C24: a content-label matcher captures the text after its label through
\* the next Intensity or Recommendation label or the end of the block: a
\* description that continues on the following lines is captured whole.
C24_DescriptionSpansLines ==
    pc = "parsed" =>
        \A c \in PlainContents :
            ( /\ Len(parts) >= 2
              /\ parts[1] = Labelled(c[1], c[2])
              /\ parts[2] = RisksRemain
              /\ \A k \in 3..Len(parts) : parts[k] = RisksRemain \/ IsNextLabelLine(parts[k]) )
            => /\ Len(insights) = 1
               /\ insights[1].description
                      = PyStrip(c[2] \o UntilNextLabel(SubSeq(parts, 2, Len(parts))))

----------------------------------------------------------------------------
(* The synthetic insight (SpecSynthetic): responses neither stage reads    *)

SyntheticLines ==
    { <<"P", "a", "y", " ", "t", "h", "e", " ", "f", "e", "e", "s", " ", "n", "o", "w", ".", " ", "S", "i", "g", "n", " ", "t", "h", "e", " ", "l", "e", "a", "s", "e", " ", "n", "o", "w", ".", " ", "K", "e", "e", "p", " ", "t", "h", "e", " ", "k", "e", "y", "s", " ", "s", "a", "f", "e", "!", " ", "C", "a", "l", "l", " ", "t", "h", "e", " ", "l", "a", "n", "d", "l", "o", "r", "d", ".", " ", "C", "h", "e", "c", "k", " ", "t", "h", "e", " ", "r", "o", "o", "f", " ", "n", "o", "w", ".", " ", "O", "k", " ", "t", "h", "e", "n", "?">>,
      <<"B", "a", "s", "e", "d", " ", "o", "n", " ", "t", "h", "e", " ", "r", "e", "v", "i", "e", "w">>,
      <<"D", "o", "c", "u", "m", "e", "n", "t", " ", "a", "t", "t", "a", "c", "h", "e", "d">>,
      <<"P", "a", "y", " ", "*", "a", "l", "l", "*", " ", "f", "e", "e", "s", ".">>,
      <<" ", "O", "k", " ", "t", "h", "e", "n">>,
      <<>> }

\* the number of lines of such a response
MaxSyntheticLines == 3

SyntheticNext ==
    \/ \E line \in SyntheticLines : Len(parts) < MaxSyntheticLines /\ Receive(line)
    \/ \E dt \in {"risk", "analysis"} : StructuredStage(dt)
    \/ FallbackStage
    \/ AssembleStage

SpecSynthetic == Init /\ [][SyntheticNext]_vars

\* the trimmed, non-empty lines that start with neither "Based on" nor
\* "Document"
RECURSIVE MainLines(_)
MainLines(lines) ==
    IF lines = <<>> THEN <<>>
    ELSE (IF /\ PyStrip(Head(lines)) # <<>>
             /\ ~IsPrefix(BasedOn, PyStrip(Head(lines)))
             /\ ~IsPrefix(Document, PyStrip(Head(lines)))
          THEN <<PyStrip(Head(lines))>> ELSE <<>>) \o MainLines(Tail(lines))

\* the first 200 characters and three periods for a longer text, the text
\* itself otherwise
CutTo200(text) ==
    IF Len(text) > MainContentLimit THEN SubSeq(text, 1, MainContentLimit) \o Ellipsis ELSE text

\* structured and fallback extraction both yield nothing
NothingExtracted ==
    /\ _parse_structured_format(response_text, default_type) = <<>>
    /\ _parse_unstructured_format(response_text, default_type) = <<>>

\* C25 as stated: when structured and fallback extraction both yield
\* nothing, the single synthetic insight has type default_type, intensity
\* Medium, confidence 0.6, the fixed recommendation, and as description the
\* lines that start with neither "Based on" nor "Document", joined by
\* spaces and cut to 200 characters and "..." when longer.
C25_SyntheticOfLines ==
    (pc = "done" /\ NothingExtracted) =>
        /\ insights = <<ParsedInsight(default_type, Medium, CutTo200(JoinSpace(MainLines(parts))),
                                      SyntheticRecommendation, "0.6")>>
        /\ Len(insights[1].description) <= MainContentLimit + Len(Ellipsis)

\* C25 as amended: the same, the markdown emphasis markers being removed
\* from the joined lines before the cut.
C25_SyntheticOfCleanedLines ==
    (pc = "done" /\ NothingExtracted) =>
        /\ insights = <<ParsedInsight(default_type, Medium,
                                      CutTo200(StripMarkdown(JoinSpace(MainLines(parts)))),
                                      SyntheticRecommendation, "0.6")>>
        /\ Len(insights[1].description) <= MainContentLimit + Len(Ellipsis)

\* a response of more than 200 characters that no stage reads: 203
\* characters of description
C25_Witness ==
    /\ pc = "done"
    /\ NothingExtracted
    /\ Len(response_text) > MainContentLimit
    /\ Len(insights[1].description) = MainContentLimit + Len(Ellipsis)
    /\ SubSeq(insights[1].description, MainContentLimit + 1, MainContentLimit + 3) = Ellipsis

----------------------------------------------------------------------------
(* analyze_document_dynamic (SpecClient): the detection of the document    *)
(* type, then the generic and the specific prompts.  The model calls of a  *)
(* step run in the executor and complete in any order; the coroutine       *)
(* awaits them in the order of the prompts.                                *)

\* the answer of _detect_document_type when the detection raised
FailedDetection ==
    [document_type |-> <<"L", "e", "g", "a", "l", " ", "D", "o", "c", "u", "m", "e", "n", "t">>, category |-> <<"L", "e", "g", "a", "l">>, confidence |-> Low]

\* default_types of _run_generic_analysis
default_types == <<"risk", "compliance", "suggestion">>

\* the default type the response of prompt i is parsed with
DefaultTypeOf(step, i) == IF step = "generic" THEN default_types[i + 1] ELSE "analysis"

\* the dictionary made of one ParsedInsight
Formatted(insight) ==
    [type_of_insight |-> insight.type, description |-> insight.description,
     intensity |-> PyLower(insight.intensity), recommendation |-> insight.recommendation]

FormattedAll(all_insights) == [k \in 1..Len(all_insights) |-> Formatted(all_insights[k])]

\* the insight returned when no prompt gave one
Placeholder ==
    [type_of_insight |-> "suggestion",
     description |-> <<"D", "o", "c", "u", "m", "e", "n", "t", " ", "a", "n", "a", "l", "y", "s", "i", "s", " ", "c", "o", "m", "p", "l", "e", "t", "e", "d", " ", "s", "u", "c", "c", "e", "s", "s", "f", "u", "l", "l", "y", " ", "u", "s", "i", "n", "g", " ", "d", "y", "n", "a", "m", "i", "c", " ", "w", "o", "r", "k", "f", "l", "o", "w">>,
     intensity |-> <<"l", "o", "w">>,
     recommendation |-> <<"R", "e", "v", "i", "e", "w", " ", "t", "h", "e", " ", "d", "o", "c", "u", "m", "e", "n", "t", " ", "f", "o", "r", " ", "a", "n", "y", " ", "s", "p", "e", "c", "i", "f", "i", "c", " ", "r", "e", "q", "u", "i", "r", "e", "m", "e", "n", "t", "s", " ", "i", "n", " ", "y", "o", "u", "r", " ", "u", "s", "e", " ", "c", "a", "s", "e">>]

\* analyze_document_dynamic is called: the detection call is issued
Analyze ==
    /\ run.pc = "idle"
    /\ run' = [run EXCEPT !.pc = "detect"]
    /\ UNCHANGED <<response_text, default_type, pc, insights, cleaned, parts,
                   doc_vars, call_vars, auth_vars, split_vars>>

\* _detect_document_type: the call returns or raises; then the generic
\* prompts are issued
DetectDocumentType(answer) ==
    /\ run.pc = "detect"
    /\ run' = [run EXCEPT !.detection = answer,
                          !.doc_type_info = IF answer.status = "failed" THEN FailedDetection
                                            ELSE parse_document_type(PyStrip(answer.text)),
                          !.pc = "generic"]
    /\ UNCHANGED <<response_text, default_type, pc, insights, cleaned, parts,
                   doc_vars, call_vars, auth_vars, split_vars>>

\* one model call of the step in progress completes in the executor
Complete(i, answer) ==
    /\ run.pc \in {"generic", "specific"}
    /\ run.tasks[i] = Pending
    /\ run' = [run EXCEPT !.tasks[i] = answer, !.order = Append(@, i)]
    /\ UNCHANGED <<response_text, default_type, pc, insights, cleaned, parts,
                   doc_vars, call_vars, auth_vars, split_vars>>

\* what the loop over tasks does with the answer of prompt i
Processed(i) ==
    IF run.tasks[i].status = "failed" THEN run.insights
    ELSE run.insights \o parse_insights_from_text(PyStrip(run.tasks[i].text),
                                                  DefaultTypeOf(run.pc, i))

\* a faulty variant of the loop over tasks: the answers are processed in
\* the order in which the calls complete
AwaitAsCompleted ==
    /\ run.pc \in {"generic", "specific"}
    /\ run.next < Len(run.order)
    /\ run' = [run EXCEPT !.insights = Processed(run.order[run.next + 1]), !.next = @ + 1]
    /\ UNCHANGED <<response_text, default_type, pc, insights, cleaned, parts,
                   doc_vars, call_vars, auth_vars, split_vars>>

\* a faulty variant of the loop over tasks: a failed prompt ends the run
AwaitOrRaise ==
    /\ run.pc \in {"generic", "specific"}
    /\ run.next \in Prompts
    /\ run.tasks[run.next] # Pending
    /\ run' = IF run.tasks[run.next].status = "failed" THEN [run EXCEPT !.pc = "raised"]
              ELSE [run EXCEPT !.insights = Processed(run.next), !.next = @ + 1]
    /\ UNCHANGED <<response_text, default_type, pc, insights, cleaned, parts,
                   doc_vars, call_vars, auth_vars, split_vars>>

\* the loop over tasks: await the call of the next prompt, parse its
\* response; a failure is logged and the loop continues
Await ==
    /\ run.pc \in {"generic", "specific"}
    /\ run.next \in Prompts
    /\ run.tasks[run.next] # Pending
    /\ run' = [run EXCEPT !.insights = Processed(run.next), !.next = @ + 1]
    /\ UNCHANGED <<response_text, default_type, pc, insights, cleaned, parts,
                   doc_vars, call_vars, auth_vars, split_vars>>

\* _run_generic_analysis returns; the specific prompts are issued
RunSpecificAnalysis ==
    /\ run.pc = "generic"
    /\ run.next \notin Prompts
    /\ run' = [run EXCEPT !.generic_insights = run.insights, !.generic_tasks = run.tasks,
                          !.tasks = [i \in Prompts |-> Pending], !.order = <<>>, !.next = 0,
                          !.insights = <<>>, !.pc = "specific"]
    /\ UNCHANGED <<response_text, default_type, pc, insights, cleaned, parts,
                   doc_vars, call_vars, auth_vars, split_vars>>

\* the result made of the insights of the two steps
AnalysisResult(formatted_insights, generic_insights, specific_insights) ==
    [insights |-> formatted_insights, document_type |-> run.doc_type_info,
     total_insights |-> Len(formatted_insights),
     generic_insights_count |-> Len(generic_insights),
     specific_insights_count |-> Len(specific_insights)]

\* a faulty variant of the last step: no placeholder
ReturnAsCollected ==
    /\ run.pc = "specific"
    /\ run.next \notin Prompts
    /\ run' = [run EXCEPT !.specific_insights = run.insights,
                          !.result = AnalysisResult(
                              FormattedAll(run.generic_insights \o run.insights),
                              run.generic_insights, run.insights),
                          !.pc = "returned"]
    /\ UNCHANGED <<response_text, default_type, pc, insights, cleaned, parts,
                   doc_vars, call_vars, auth_vars, split_vars>>

\* _run_specific_analysis returns; analyze_document_dynamic formats the
\* insights, adds the placeholder to an empty list and returns
Return ==
    /\ run.pc = "specific"
    /\ run.next \notin Prompts
    /\ LET formatted_insights == FormattedAll(run.generic_insights \o run.insights)
       IN  run' = [run EXCEPT !.specific_insights = run.insights,
                              !.result = AnalysisResult(
                                  IF formatted_insights = <<>> THEN <<Placeholder>>
                                  ELSE formatted_insights,
                                  run.generic_insights, run.insights),
                              !.pc = "returned"]
    /\ UNCHANGED <<response_text, default_type, pc, insights, cleaned, parts,
                   doc_vars, call_vars, auth_vars, split_vars>>

\* the answers of the model to the detection prompt
DetectionAnswers == {Returned(<<"D", "o", "c", "u", "m", "e", "n", "t", " ", "T", "y", "p", "e", ":", " ", "L", "e", "a", "s", "e", " ", "A", "g", "r", "e", "e", "m", "e", "n", "t", " ">>), Failed}

\* the answers of the model to an analysis prompt
PromptAnswers ==
    {Returned(<<"A", "N", "A", "L", "Y", "S", "I", "S", ":", " ", "m", "u", "s", "t", " ", "f", "i", "x">>), Returned(<<"-", " ", "P", "a", "y", "m", "e", "n", "t", " ", "t", "e", "r", "m", "s", " ", "a", "r", "e", " ", "u", "n", "c", "l", "e", "a", "r", ".", " ">>), Failed}

ClientNext ==
    \/ Analyze
    \/ \E answer \in DetectionAnswers : DetectDocumentType(answer)
    \/ \E i \in Prompts, answer \in PromptAnswers : Complete(i, answer)
    \/ Await
    \/ RunSpecificAnalysis
    \/ Return

SpecClient == Init /\ [][ClientNext]_vars

\* the insights of the prompts of one step, in the order of the prompts
RECURSIVE InPromptOrder(_, _, _)
InPromptOrder(tasks, step, i) ==
    IF i \notin Prompts THEN <<>>
    ELSE (IF tasks[i].status = "failed" THEN <<>>
          ELSE FormattedAll(parse_insights_from_text(PyStrip(tasks[i].text),
                                                     DefaultTypeOf(step, i))))
             \o InPromptOrder(tasks, step, i + 1)

\* C26: whatever the order in which the model calls complete, the returned
\* insights are grouped by prompt in the order of the prompts, the generic
\* ones first, each generic response parsed with the default type of its
\* own prompt (risk, compliance, suggestion) and each specific response
\* with analysis.
C26_GroupedInPromptOrder ==
    run.pc = "returned" =>
        LET grouped == InPromptOrder(run.generic_tasks, "generic", 0)
                           \o InPromptOrder(run.tasks, "specific", 0)
        IN  /\ FormattedAll(run.generic_insights \o run.specific_insights) = grouped
            /\ grouped # <<>> => run.result.insights = grouped

\* the calls of the specific prompts completed in the order 2, 1, 0 and
\* each of the three default types of the generic prompts shows
C26_Witness ==
    /\ run.pc = "returned"
    /\ run.order = <<2, 1, 0>>
    /\ \A i \in Prompts : run.generic_tasks[i] = Returned(<<"A", "N", "A", "L", "Y", "S", "I", "S", ":", " ", "m", "u", "s", "t", " ", "f", "i", "x">>)
    /\ run.tasks[0] = Returned(<<"-", " ", "P", "a", "y", "m", "e", "n", "t", " ", "t", "e", "r", "m", "s", " ", "a", "r", "e", " ", "u", "n", "c", "l", "e", "a", "r", ".", " ">>)
    /\ run.tasks[2] = Returned(<<"A", "N", "A", "L", "Y", "S", "I", "S", ":", " ", "m", "u", "s", "t", " ", "f", "i", "x">>)
    /\ run.result.insights[1].type_of_insight = "risk"
    /\ run.result.insights[2].type_of_insight = "compliance"
    /\ run.result.insights[3].type_of_insight = "suggestion"
    /\ run.result.insights[4].description = <<"P", "a", "y", "m", "e", "n", "t", " ", "t", "e", "r", "m", "s", " ", "a", "r", "e", " ", "u", "n", "c", "l", "e", "a", "r">>

\* every insight of the list is in the result
AllKept(kept, result) ==
    \A k \in 1..Len(kept) : \E j \in 1..Len(result.insights) : result.insights[j] = kept[k]

\* C27: the failure of one model call never aborts analyze_document_dynamic:
\* a failed detection yields Legal Document, Legal, Low; a failed prompt
\* contributes no insight and the insights of every other prompt are kept.
C27_FailuresAreContained ==
    /\ run.pc # "raised"
    /\ (run.pc \notin {"idle", "detect"} /\ run.detection = Failed) =>
           run.doc_type_info = FailedDetection
    /\ run.pc = "returned" =>
           LET generic == InPromptOrder(run.generic_tasks, "generic", 0)
               specific == InPromptOrder(run.tasks, "specific", 0)
           IN  /\ run.result.document_type = run.doc_type_info
               /\ run.result.generic_insights_count = Len(generic)
               /\ run.result.specific_insights_count = Len(specific)
               /\ AllKept(generic, run.result)
               /\ AllKept(specific, run.result)

\* the detection and two of the generic prompts failed, and the run returned
\* the insights of the third
C27_Witness ==
    /\ run.pc = "returned"
    /\ run.detection = Failed
    /\ run.generic_tasks[0] = Failed
    /\ run.generic_tasks[1] # Failed
    /\ run.generic_tasks[2] = Failed
    /\ run.result.document_type = FailedDetection
    /\ run.result.generic_insights_count = 1

\* C28: every result has a non-empty insights list, total_insights equal to
\* its length, and total_insights = generic_insights_count +
\* specific_insights_count when that sum is positive; when every prompt
\* failed the list holds the placeholder alone and both counts are 0.
C28_CountsAgree ==
    run.pc = "returned" =>
        LET r == run.result
            sum == r.generic_insights_count + r.specific_insights_count
        IN  /\ r.insights # <<>>
            /\ r.total_insights = Len(r.insights)
            /\ sum > 0 => r.total_insights = sum
            /\ ( /\ \A i \in Prompts : run.generic_tasks[i] = Failed
                 /\ \A i \in Prompts : run.tasks[i] = Failed )
               => /\ r.insights = <<Placeholder>>
                  /\ r.generic_insights_count = 0
                  /\ r.specific_insights_count = 0

\* every prompt failed
C28_Witness ==
    /\ run.pc = "returned"
    /\ \A i \in Prompts : run.generic_tasks[i] = Failed /\ run.tasks[i] = Failed
    /\ run.result.total_insights = 1
    /\ run.result.insights[1].intensity = <<"l", "o", "w">>

----------------------------------------------------------------------------
(* The session of a request (SpecAuth)                                     *)

\* the session of the user created last by register or login
LastCreated(username) ==
    CHOOSE s \in users[username].sessions :
        \A other \in users[username].sessions : other.created_at <= s.created_at

\* C30: after any sequence of register, login and upload operations of a
\* user, every endpoint that looks the session up finds the user's latest
\* session, the one most recently created by register or login.
C30_LatestSession ==
    current_user.status \in {"200", "404"} =>
        current_user.session_uid = LastCreated(current_user.token.sub).session_uid

----------------------------------------------------------------------------
(* Two calls that differ in default_type only (SpecCalls)                  *)

\* the two results have the same insights but for the type and, for the
\* insights of the fallback stage, the recommendation derived from it
SameButType(a, b) ==
    /\ Len(a) = Len(b)
    /\ \A i \in 1..Len(a) :
           /\ a[i].description = b[i].description
           /\ a[i].intensity = b[i].intensity
           /\ a[i].confidence = b[i].confidence
           /\ \/ a[i].recommendation = b[i].recommendation
              \/ /\ a[i].confidence = "0.7"
                 /\ a[i].type # b[i].type
                 /\ a[i].recommendation = _generate_recommendation(a[i].type, a[i].description)
                 /\ b[i].recommendation = _generate_recommendation(b[i].type, b[i].description)

\* C29: two calls of parse_insights_from_text on the same response text
\* that differ only in default_type return the same number of insights
\* with the same descriptions, intensities and confidences in the same
\* order; default_type shows only in the type and, in the fallback stage,
\* in the recommendation derived from the type.
C29_DefaultTypeOnlyInType ==
    \A c, d \in Callers :
        ( /\ calls[c].pc = "returned" /\ calls[d].pc = "returned"
          /\ calls[c].method = "parse_insights_from_text"
          /\ calls[d].method = "parse_insights_from_text"
          /\ calls[c].response_text = calls[d].response_text )
        => SameButType(calls[c].insights, calls[d].insights)

\* the same bullet line parsed with risk and with analysis: the types and
\* the recommendations differ, nothing else does
C29_Witness ==
    /\ \A c \in Callers : calls[c].pc = "returned"
    /\ calls["first"].response_text = <<"-", " ", "P", "a", "y", "m", "e", "n", "t", " ", "t", "e", "r", "m", "s", " ", "a", "r", "e", " ", "u", "n", "c", "l", "e", "a", "r", ".">>
    /\ calls["second"].response_text = <<"-", " ", "P", "a", "y", "m", "e", "n", "t", " ", "t", "e", "r", "m", "s", " ", "a", "r", "e", " ", "u", "n", "c", "l", "e", "a", "r", ".">>
    /\ calls["first"].default_type = "risk"
    /\ calls["second"].default_type = "analysis"
    /\ calls["first"].insights[1].type = "risk"
    /\ calls["second"].insights[1].type = "analysis"
    /\ calls["first"].insights[1].recommendation # calls["second"].insights[1].recommendation


====
